---- MODULE Spec2Model ----
(***************************************************************************)
(* Kairo: the metadata analyzer core (scanner, extractors, graph           *)
(* accumulator, weight calculator, analyzer), as a state machine.          *)
(*                                                                         *)
(* Strings.  A string that the program splits on ':' (a component id, a    *)
(* placeholder name) is the sequence of its colon-free segments:           *)
(* "CustomObject:Foo" is <<"CustomObject", "Foo">>, "Foo" is <<"Foo">>,    *)
(* ":x" is <<"", "x">>; split(':') is then the sequence itself.  Every     *)
(* other string (a metadata name, a type, a path) is a TLA+ string.        *)
(* The value `undefined` of an optional attribute is the string            *)
(* "undefined"; an absent weight is NoWeight.                              *)
(***************************************************************************)
EXTENDS Integers, Sequences, FiniteSets, TLC

VARIABLES
    graph,          \* GraphBuilder.graph: [nodes: id -> attributes, edges: sequence]
    callLog,        \* history: the addComponent/addDependency calls made on graph
    dep,            \* the dependency handed to DependencyWeightCalculator.calculate
    weights,        \* history: the results calculate returned for dep
    tree,           \* the metadata tree on disk, in directory-enumeration order
    files,          \* analyze: the scanner's file list
    indexes,        \* analyze: the scanner's name indexes
    objectNameMap,  \* analyze: the object-name registry (lower-cased key -> canonical)
    idx,            \* analyze: position of the file loop (1-based, next file)
    processed,      \* analyze: the counter `processed`
    pc,             \* analyze: where the run is
    onProgress,     \* analyze: whether the caller passed a progress callback
    progressLog,    \* history: the onProgress invocations of the run
    pending,        \* analyze: the promise onProgress returned has not settled
    result,         \* analyze: the AnalysisResult returned
    callerPreds,    \* ApexParser.parse: the optional parameters the caller supplies
    parsed,         \* ApexParser.parse: the value returned for the file under parse
    resolveLog,     \* history: the registry operations and what resolve returned
    page,           \* the generated graph page: its data, controls and datasets
    runs            \* the analyze calls in flight on one MetadataAnalyzer

vars == <<graph, callLog, dep, weights, tree, files, indexes, objectNameMap,
          idx, processed, pc, onProgress, progressLog, pending, result,
          callerPreds, parsed, resolveLog, page, runs>>

undefined == "undefined"

NoWeight == 0

NoMetadata == [absent |-> TRUE]

(***************************************************************************)
(* Bounds of the model.                                                    *)
(***************************************************************************)
MaxCalls == 3

MaxCalcs == 2

MaxStmts == 3

MaxResolves == 3

MaxFiles == 3

MaxEntries == 2

MaxEdges == 2

MaxAttrs == 3

MaxRuns == 2

----------------------------------------------------------------------------
(***************************************************************************)
(* DependencyWeightCalculator                                              *)
(***************************************************************************)

\* const [type] = componentId.split(':'); return type || 'Unknown'
extractType(componentId) ==
    IF componentId[1] = "" THEN "Unknown" ELSE componentId[1]

\* dependency.metadata?.source
sourceOf(d) ==
    IF "source" \in DOMAIN d.metadata THEN d.metadata.source ELSE undefined

\* The rows of calculate for an Apex class or trigger reaching a CustomObject.
apexToObjectWeight(source) ==
    IF source = "dml" THEN 6
    ELSE IF source = "soql" THEN 2
    ELSE IF source = "soql_or_dml" THEN 2
    ELSE IF source = "type_reference" THEN 1
    ELSE 2

\* A slip in the order of calculate's tests: the source rows of
\* ApexTrigger -> CustomObject are tried before the triggers_on row.
calculateSourceFirst(d) ==
    LET fromType == extractType(d.from)
        toType   == extractType(d.to)
        source   == sourceOf(d)
    IN  IF fromType = "Flow" /\ toType = "ApexClass" THEN 10
        ELSE IF fromType = "Flow" /\ toType = "CustomObject" THEN 9
        ELSE IF fromType = "ApexClass" /\ toType = "Flow" THEN 7
        ELSE IF fromType \in {"LightningWebComponent", "AuraComponent"}
                /\ toType = "ApexClass" THEN 8
        ELSE IF fromType = "ApexTrigger" /\ toType = "ApexClass" THEN 8
        ELSE IF fromType = "CustomObject" /\ toType = "CustomObject" THEN 6
        ELSE IF fromType = "ApexClass" /\ toType = "ApexClass" THEN 5
        ELSE IF fromType = "ApexClass" /\ toType = "CustomObject"
             THEN apexToObjectWeight(source)
        ELSE IF fromType = "ApexTrigger" /\ toType = "CustomObject"
             THEN apexToObjectWeight(source)
        ELSE 3

\* A slip in calculate: the default row returns 4, a value outside the scale.
calculateDefaultFour(d) ==
    LET w == calculateSourceFirst(d)
    IN  IF extractType(d.from) = "ApexTrigger" /\ extractType(d.to) = "CustomObject"
           /\ d.type = "triggers_on"
        THEN 3
        ELSE IF w = 3 THEN 4 ELSE w

calculate(d) ==
    LET fromType == extractType(d.from)
        toType   == extractType(d.to)
        source   == sourceOf(d)
    IN  IF fromType = "Flow" /\ toType = "ApexClass" THEN 10
        ELSE IF fromType = "Flow" /\ toType = "CustomObject" THEN 9
        ELSE IF fromType = "ApexClass" /\ toType = "Flow" THEN 7
        ELSE IF fromType \in {"LightningWebComponent", "AuraComponent"}
                /\ toType = "ApexClass" THEN 8
        ELSE IF fromType = "ApexTrigger" /\ toType = "ApexClass" THEN 8
        ELSE IF fromType = "ApexTrigger" /\ toType = "CustomObject"
                /\ d.type = "triggers_on" THEN 3
        ELSE IF fromType = "CustomObject" /\ toType = "CustomObject" THEN 6
        ELSE IF fromType = "ApexClass" /\ toType = "ApexClass" THEN 5
        ELSE IF fromType = "ApexClass" /\ toType = "CustomObject"
             THEN apexToObjectWeight(source)
        ELSE IF fromType = "ApexTrigger" /\ toType = "CustomObject"
             THEN apexToObjectWeight(source)
        ELSE 3

\* An extractor that pushes its edge without the weight assignment.
withoutWeight(d) == d

\* dep.weight = DependencyWeightCalculator.calculate(dep)
withWeight(d) == [d EXCEPT !.weight = calculate(d)]

----------------------------------------------------------------------------
(***************************************************************************)
(* GraphBuilder                                                            *)
(***************************************************************************)

EmptyGraph == [nodes |-> <<>>, edges |-> <<>>]

hasNode(g, id) == id \in DOMAIN g.nodes

\* graph.addNode(id, attrs), kept in a function from ids to attributes
addNode(g, id, attrs) == [g EXCEPT !.nodes = (id :> attrs) @@ @]

\* A slip in addComponent: the hasNode test is dropped and the attributes of a
\* registered id are replaced.
addComponentOverwrite(g, component) ==
    [g EXCEPT !.nodes =
        (component.id :> [name        |-> component.name,
                          type        |-> component.type,
                          filePath    |-> component.filePath,
                          label       |-> component.label,
                          description |-> component.description]) @@ @]

\* A slip in addComponent: a registered node that carries no filePath (a
\* placeholder) takes the attributes of the component.
addComponentFillsPlaceholder(g, component) ==
    IF ~hasNode(g, component.id) \/ "filePath" \notin DOMAIN g.nodes[component.id]
    THEN addComponentOverwrite(g, component)
    ELSE g

addComponent(g, component) ==
    IF ~hasNode(g, component.id)
    THEN addNode(g, component.id,
                 [name        |-> component.name,
                  type        |-> component.type,
                  filePath    |-> component.filePath,
                  label       |-> component.label,
                  description |-> component.description])
    ELSE g

\* const [type, name] = id.split(':'); {name: name || id, type: type || 'Unknown'}
placeholderAttrs(id) ==
    [name |-> IF Len(id) >= 2 /\ id[2] # "" THEN <<id[2]>> ELSE id,
     type |-> IF id[1] = "" THEN "Unknown" ELSE id[1]]

\* An addDependency that synthesizes no placeholder.
ensureNodeSkipped(g, id) == g

ensureNode(g, id) ==
    IF ~hasNode(g, id) THEN addNode(g, id, placeholderAttrs(id)) ELSE g

\* A slip in addDependency: an edge whose endpoints already have an edge is
\* not added again.
addDependencyOncePerPair(g, dependency) ==
    LET g1 == ensureNode(g, dependency.from)
        g2 == ensureNode(g1, dependency.to)
    IN  IF \E k \in 1..Len(g.edges) :
              g.edges[k].from = dependency.from /\ g.edges[k].to = dependency.to
        THEN g2
        ELSE [g2 EXCEPT !.edges = Append(@, [from     |-> dependency.from,
                                             to       |-> dependency.to,
                                             type     |-> dependency.type,
                                             metadata |-> dependency.metadata,
                                             weight   |-> dependency.weight])]

addDependency(g, dependency) ==
    LET g1 == ensureNode(g, dependency.from)
        g2 == ensureNode(g1, dependency.to)
    IN  [g2 EXCEPT !.edges = Append(@, [from     |-> dependency.from,
                                        to       |-> dependency.to,
                                        type     |-> dependency.type,
                                        metadata |-> dependency.metadata,
                                        weight   |-> dependency.weight])]

\* An attribute the node does not carry reads as undefined.
attr(attrs, key) == IF key \in DOMAIN attrs THEN attrs[key] ELSE undefined

build(g) ==
    [components |->
        [node \in DOMAIN g.nodes |->
            [id          |-> node,
             name        |-> attr(g.nodes[node], "name"),
             type        |-> attr(g.nodes[node], "type"),
             filePath    |-> attr(g.nodes[node], "filePath"),
             label       |-> attr(g.nodes[node], "label"),
             description |-> attr(g.nodes[node], "description")]],
     dependencies |-> g.edges]

----------------------------------------------------------------------------
(***************************************************************************)
(* Names.  toLowerCase and the character classes of the parsers' regular   *)
(* expressions, on the names the model draws from.                         *)
(***************************************************************************)

\* String.prototype.toLowerCase
toLowerCase(name) ==
    CASE name = "Account" -> "account"
      [] name = "ACCOUNT" -> "account"
      [] name = "Contact" -> "contact"
      [] name = "Opportunity" -> "opportunity"
      [] name = "Case" -> "case"
      [] name = "Lead" -> "lead"
      [] name = "Foo__c" -> "foo__c"
      [] name = "FOO__c" -> "foo__c"
      [] name = "Bar__c" -> "bar__c"
      [] name = "Helper" -> "helper"
      [] name = "Widget" -> "widget"
      [] name = "String" -> "string"
      [] OTHER -> name

\* [A-Z] as the first character
startsUpper(name) ==
    name \in {"Account", "ACCOUNT", "Contact", "Opportunity", "Case", "Lead",
              "Foo__c", "FOO__c", "Bar__c", "Helper", "Widget", "String"}

\* ...__c or ...__mdt at the end of the token
customSuffixed(name) == toLowerCase(name) \in {"foo__c", "bar__c"}

\* ([A-Z][a-zA-Z0-9_]*__[cm]|Account|Contact|Opportunity|Case|Lead), flag i
objectToken(name) ==
    \/ customSuffixed(name)
    \/ toLowerCase(name) \in {"account", "contact", "opportunity", "case", "lead"}

----------------------------------------------------------------------------
(***************************************************************************)
(* The object-name registry and the predicates analyze hands to the        *)
(* extractors.                                                             *)
(***************************************************************************)
STANDARD_OBJECTS == <<"Account", "Contact", "Opportunity", "Case", "Lead">>

\* Map.prototype.set
mapSet(map, key, value) == (key :> value) @@ map

RECURSIVE setAll(_, _, _)
\* for (const name of names) map.set(name.toLowerCase(), name), from position k
setAll(map, names, k) ==
    IF k > Len(names) THEN map
    ELSE setAll(mapSet(map, toLowerCase(names[k]), names[k]), names, k + 1)

buildObjectNameMap(ix) ==
    setAll(setAll(<<>>, STANDARD_OBJECTS, 1), ix.objectNames, 1)

\* objectNameMap.get(key) is truthy
hasCanonical(map, name) ==
    toLowerCase(name) \in DOMAIN map /\ map[toLowerCase(name)] # ""

\* A slip in resolveObjectName: the existing entry is not consulted, the name
\* is stored and returned as it came.
resolveObjectNameNoLookup(map, name) == name

\* resolveObjectName: the value returned
resolveObjectName(map, name) ==
    IF hasCanonical(map, name) THEN map[toLowerCase(name)] ELSE name

\* resolveObjectName: the registry it leaves
registerObjectName(map, name) ==
    IF hasCanonical(map, name) THEN map
    ELSE mapSet(map, toLowerCase(name), resolveObjectName(map, name))

\* A slip in isObjectName: the field-name index is not consulted.
isObjectNameIgnoresFields(ix, map, name) == toLowerCase(name) \in DOMAIN map

isObjectName(ix, map, name) ==
    IF name \in ix.fieldNames THEN FALSE ELSE toLowerCase(name) \in DOMAIN map

isApexClass(ix, name) == name \in ix.apexClassNames

----------------------------------------------------------------------------
(***************************************************************************)
(* ApexParser.  The content of an Apex file is the sequence of its         *)
(* statements, each the text one of the parser's patterns looks for:       *)
(*   [kind |-> "dml", name |-> n]       insert n;                          *)
(*   [kind |-> "soql", name |-> n]      [SELECT Id FROM n]                 *)
(*   [kind |-> "select", name |-> f, object |-> n]                         *)
(*                                      [SELECT f from n]                  *)
(*   [kind |-> "type", name |-> n]      List<n> x;                         *)
(*   [kind |-> "new", name |-> n]       new n();                           *)
(*   [kind |-> "trigger", name |-> n]   trigger T on n (before insert)     *)
(*   [kind |-> "isTest"]                @isTest                            *)
(* A pattern's matches are the statements it matches, in text order.       *)
(***************************************************************************)

\* The captures of a pattern are those of the statements it matches, in text
\* order.
\* dmlPattern.exec(content), match[1] of every match
dmlMatches(content) ==
    LET selected == SelectSeq(content,
                              LAMBDA st : st.kind = "dml" /\ objectToken(st.name))
    IN  [i \in 1..Len(selected) |-> selected[i].name]

\* soqlPattern.exec(content), match[1] of every match
soqlMatches(content) ==
    LET selected == SelectSeq(content,
                              LAMBDA st : \/ st.kind = "soql" /\ objectToken(st.name)
                                          \/ st.kind = "select" /\ objectToken(st.object))
    IN  [i \in 1..Len(selected) |->
            IF selected[i].kind = "select" THEN selected[i].object ELSE selected[i].name]

\* typePattern.exec(content): match[1] of every match, and whether the text
\* after the match starts with a SOQL keyword
typeMatches(content) ==
    LET selected == SelectSeq(content,
                              LAMBDA st : /\ st.kind \in {"type", "select", "new", "trigger"}
                                          /\ startsUpper(st.name) /\ customSuffixed(st.name))
    IN  [i \in 1..Len(selected) |->
            [name |-> selected[i].name, soqlKeywordNext |-> selected[i].kind = "select"]]

standardClasses == {"String", "Integer", "List", "Set", "Map", "Date", "Datetime",
                    "Boolean", "Decimal", "Long", "Double"}

\* classPattern.exec(content), match[1] of every match
classMatches(content) ==
    LET selected == SelectSeq(content,
                              LAMBDA st : st.kind = "new" /\ startsUpper(st.name))
    IN  [i \in 1..Len(selected) |-> selected[i].name]

\* content.match(triggerPattern): the first match
triggerMatches(content) ==
    LET selected == SelectSeq(content,
                              LAMBDA st : st.kind = "trigger" /\ startsUpper(st.name))
    IN  [i \in 1..Len(selected) |-> selected[i].name]

\* The optional parameters of parse a caller supplied: analyze supplies all
\* three, a bare call none.
AllPreds == [resolver |-> TRUE, isObjectName |-> TRUE, isApexClass |-> TRUE]

NoPreds == [resolver |-> FALSE, isObjectName |-> FALSE, isApexClass |-> FALSE]

\* objectNameResolver ? objectNameResolver(x) : x, with the registry it leaves
resolved(preds, map, name) ==
    IF preds.resolver THEN resolveObjectName(map, name) ELSE name

registered(preds, map, name) ==
    IF preds.resolver THEN registerObjectName(map, name) ELSE map

\* The position of objectName among the keys of objectOperations, 0 if absent.
opIndex(ops, objectName) ==
    IF \E i \in 1..Len(ops) : ops[i].name = objectName
    THEN CHOOSE i \in 1..Len(ops) : ops[i].name = objectName
    ELSE 0

\* One iteration of the DML loop or of the SOQL loop: st is
\* [map, ops], ops the insertion-ordered objectOperations.
recordOperation(preds, st, name, operation) ==
    LET objectName == resolved(preds, st.map, name)
        i == opIndex(st.ops, objectName)
    IN  [map |-> registered(preds, st.map, name),
         ops |-> IF i = 0
                 THEN Append(st.ops, [name |-> objectName, operations |-> {operation}])
                 ELSE [st.ops EXCEPT ![i].operations = @ \cup {operation}]]

RECURSIVE scanOperations(_, _, _, _, _)
scanOperations(preds, st, matches, k, operation) ==
    IF k > Len(matches) THEN st
    ELSE scanOperations(preds, recordOperation(preds, st, matches[k], operation),
                        matches, k + 1, operation)

\* A slip in the DML/SOQL edge loop: the priority is reversed, soql wins.
usesSourceSoqlWins(operations) == IF "soql" \in operations THEN "soql" ELSE "dml"

\* operations.has('dml') ? 'dml' : 'soql'
usesSource(operations) == IF "dml" \in operations THEN "dml" ELSE "soql"

\* for (const [objectName, operations] of objectOperations.entries()) ...
operationDeps(componentId, ops) ==
    [i \in 1..Len(ops) |->
        withWeight([from     |-> componentId,
                    to       |-> <<"CustomObject", ops[i].name>>,
                    type     |-> "uses",
                    metadata |-> [source |-> usesSource(ops[i].operations)],
                    weight   |-> NoWeight])]

\* A slip in the type-reference loop: the objects the DML/SOQL scan covered
\* are not skipped.
recordTypeReferenceCovered(preds, componentId, ops, st, m) ==
    LET objectName == resolved(preds, st.map, m.name)
        map2 == registered(preds, st.map, m.name)
    IN  IF m.soqlKeywordNext THEN [st EXCEPT !.map = map2]
        ELSE IF objectName \notin st.found
        THEN [map   |-> map2,
              found |-> st.found \cup {objectName},
              deps  |-> Append(st.deps,
                          withWeight([from     |-> componentId,
                                      to       |-> <<"CustomObject", objectName>>,
                                      type     |-> "references",
                                      metadata |-> [source |-> "type_reference"],
                                      weight   |-> NoWeight]))]
        ELSE [st EXCEPT !.map = map2]

\* One iteration of the type-reference loop: st is [map, found, deps].
recordTypeReference(preds, componentId, ops, st, m) ==
    LET objectName == resolved(preds, st.map, m.name)
        map2 == registered(preds, st.map, m.name)
    IN  IF m.soqlKeywordNext THEN [st EXCEPT !.map = map2]
        ELSE IF opIndex(ops, objectName) = 0 /\ objectName \notin st.found
        THEN [map   |-> map2,
              found |-> st.found \cup {objectName},
              deps  |-> Append(st.deps,
                          withWeight([from     |-> componentId,
                                      to       |-> <<"CustomObject", objectName>>,
                                      type     |-> "references",
                                      metadata |-> [source |-> "type_reference"],
                                      weight   |-> NoWeight]))]
        ELSE [st EXCEPT !.map = map2]

RECURSIVE scanTypeReferences(_, _, _, _, _, _)
scanTypeReferences(preds, componentId, ops, st, matches, k) ==
    IF k > Len(matches) THEN st
    ELSE scanTypeReferences(preds, componentId, ops,
                            recordTypeReference(preds, componentId, ops, st, matches[k]),
                            matches, k + 1)

\* A slip in the instantiation loop: a name that is not an object name gets
\* its ApexClass edge whether isApexClass accepts it or not.
recordInstantiationUnfiltered(preds, ix, componentId, st, className) ==
    IF className \in standardClasses \/ className \in st.found THEN st
    ELSE [st EXCEPT !.found = @ \cup {className},
                    !.deps = Append(@,
                      withWeight([from     |-> componentId,
                                  to       |-> IF preds.isObjectName
                                                  /\ isObjectName(ix, st.map, className)
                                               THEN <<"CustomObject",
                                                      resolved(preds, st.map, className)>>
                                               ELSE <<"ApexClass", className>>,
                                  type     |-> "uses",
                                  metadata |-> [source |->
                                                  IF preds.isObjectName
                                                     /\ isObjectName(ix, st.map, className)
                                                  THEN "sobject_instantiation"
                                                  ELSE "instantiation"],
                                  weight   |-> NoWeight]))]

\* One iteration of the instantiation loop: st is [map, found, deps].
recordInstantiation(preds, ix, componentId, st, className) ==
    IF className \in standardClasses \/ className \in st.found THEN st
    ELSE IF preds.isObjectName /\ isObjectName(ix, st.map, className)
    THEN [map   |-> registered(preds, st.map, className),
          found |-> st.found \cup {className},
          deps  |-> Append(st.deps,
                      withWeight([from     |-> componentId,
                                  to       |-> <<"CustomObject",
                                                 resolved(preds, st.map, className)>>,
                                  type     |-> "uses",
                                  metadata |-> [source |-> "sobject_instantiation"],
                                  weight   |-> NoWeight]))]
    ELSE IF ~preds.isApexClass \/ isApexClass(ix, className)
    THEN [st EXCEPT !.found = @ \cup {className},
                    !.deps = Append(@,
                      withWeight([from     |-> componentId,
                                  to       |-> <<"ApexClass", className>>,
                                  type     |-> "uses",
                                  metadata |-> [source |-> "instantiation"],
                                  weight   |-> NoWeight]))]
    ELSE [st EXCEPT !.found = @ \cup {className}]

RECURSIVE scanInstantiations(_, _, _, _, _, _)
scanInstantiations(preds, ix, componentId, st, matches, k) ==
    IF k > Len(matches) THEN st
    ELSE scanInstantiations(preds, ix, componentId,
                            recordInstantiation(preds, ix, componentId, st, matches[k]),
                            matches, k + 1)

\* A slip in the trigger scan: an object the DML/SOQL scan already covered
\* gets no triggers_on edge.
triggerDepsUnlessCovered(preds, type, componentId, map, content) ==
    IF type = "ApexTrigger" /\ Len(triggerMatches(content)) > 0
       /\ ~(\E k \in 1..Len(content) :
               /\ content[k].kind \in {"dml", "soql"}
               /\ toLowerCase(content[k].name)
                    = toLowerCase(triggerMatches(content)[1]))
    THEN << withWeight([from     |-> componentId,
                        to       |-> <<"CustomObject",
                                       resolved(preds, map, triggerMatches(content)[1])>>,
                        type     |-> "triggers_on",
                        metadata |-> NoMetadata,
                        weight   |-> NoWeight]) >>
    ELSE <<>>

\* if (type === 'ApexTrigger') { ... }: the edges it pushes
triggerDeps(preds, type, componentId, map, content) ==
    IF type = "ApexTrigger" /\ Len(triggerMatches(content)) > 0
    THEN << withWeight([from     |-> componentId,
                        to       |-> <<"CustomObject",
                                       resolved(preds, map, triggerMatches(content)[1])>>,
                        type     |-> "triggers_on",
                        metadata |-> NoMetadata,
                        weight   |-> NoWeight]) >>
    ELSE <<>>

\* ApexParser.parse(filePath, type, resolver, isObjectName, isApexClass) on a
\* readable file: name is the file name without .cls or .trigger.  Returns the
\* component, the dependencies and the registry the resolver calls leave.
apexParse(preds, ix, map, type, name, filePath, content) ==
    LET componentId == <<type, name>>
        s1 == scanOperations(preds, [map |-> map, ops |-> <<>>],
                             dmlMatches(content), 1, "dml")
        s2 == scanOperations(preds, s1, soqlMatches(content), 1, "soql")
        s3 == scanTypeReferences(preds, componentId, s2.ops,
                                 [map |-> s2.map, found |-> {},
                                  deps |-> operationDeps(componentId, s2.ops)],
                                 typeMatches(content), 1)
        s4 == scanInstantiations(preds, ix, componentId,
                                 [map |-> s3.map, found |-> {}, deps |-> s3.deps],
                                 classMatches(content), 1)
        tr == triggerDeps(preds, type, componentId, s4.map, content)
    IN  [outcome      |-> "returned",
         component    |-> [id |-> componentId, name |-> <<name>>, type |-> type,
                           filePath |-> filePath, label |-> undefined,
                           description |-> undefined],
         dependencies |-> s4.deps \o tr,
         map          |-> IF Len(tr) > 0
                          THEN registered(preds, s4.map, triggerMatches(content)[1])
                          ELSE s4.map]

----------------------------------------------------------------------------
(***************************************************************************)
(* The metadata tree and MetadataScanner.  A tree is the sequence of its   *)
(* files in the order walkDir meets them; a file is                        *)
(*   [dirs, stem, ext, readable, content]:                                 *)
(* the directories from the root to the file, the entry name cut into the  *)
(* text before its first dot and the rest, whether readFileSync succeeds   *)
(* on it, and what it then returns.                                        *)
(***************************************************************************)

\* The seven name sets, empty; objectNames in insertion order.
NoIndexes == [objectNames |-> <<>>, fieldNames |-> {}, apexClassNames |-> {},
              apexTriggerNames |-> {}, lwcNames |-> {}, auraNames |-> {},
              flowNames |-> {}]

\* entry.endsWith(suffix)
endsWith(ext, suffix) ==
    \/ ext = suffix
    \/ suffix = "-meta.xml"
       /\ ext \in {".object-meta.xml", ".field-meta.xml", ".flow-meta.xml",
                   ".js-meta.xml", ".cmp-meta.xml", ".cls-meta.xml"}

\* fullPath.includes('/<segment>/')
underSegment(f, segment) == \E i \in 1..Len(f.dirs) : f.dirs[i] = segment

\* fullPath.split('/').slice(-2, -1)[0]
parentDir(f) == f.dirs[Len(f.dirs)]

RECURSIVE joinDirs(_, _)
joinDirs(dirs, k) ==
    IF k > Len(dirs) THEN "" ELSE dirs[k] \o "/" \o joinDirs(dirs, k + 1)

\* join(dir, entry), from the root
pathOf(f) == joinDirs(f.dirs, 1) \o f.stem \o f.ext

\* Set.prototype.add on a set kept in insertion order
orderedAdd(names, name) ==
    IF \E i \in 1..Len(names) : names[i] = name THEN names ELSE Append(names, name)

\* A field branch that also lists the file.
fieldEntryListsFile(acc, f) ==
    [files   |-> Append(acc.files, [path |-> pathOf(f), type |-> "CustomObject"]),
     indexes |-> [acc.indexes EXCEPT !.fieldNames = @ \cup {f.stem}]]

\* The *.field-meta.xml branch: fieldNames.add(fieldApiName), no files.push
fieldEntry(acc, f) == [acc EXCEPT !.indexes.fieldNames = @ \cup {f.stem}]

\* An LWC branch without the parentDir === baseName test.
lwcEntryAnyModule(acc, f) ==
    [files   |-> Append(acc.files, [path |-> pathOf(f), type |-> "LWC"]),
     indexes |-> [acc.indexes EXCEPT !.lwcNames = @ \cup {f.stem}]]

\* The LWC branch: only the module named after its folder is admitted.
lwcEntry(acc, f) ==
    IF parentDir(f) = f.stem
    THEN [files   |-> Append(acc.files, [path |-> pathOf(f), type |-> "LWC"]),
          indexes |-> [acc.indexes EXCEPT !.lwcNames = @ \cup {f.stem}]]
    ELSE acc

\* The body of walkDir's loop for one file: acc is [files, indexes].
classify(acc, f) ==
    IF endsWith(f.ext, ".object-meta.xml")
    THEN [files   |-> Append(acc.files, [path |-> pathOf(f), type |-> "CustomObject"]),
          indexes |-> [acc.indexes EXCEPT !.objectNames = orderedAdd(@, parentDir(f))]]
    ELSE IF endsWith(f.ext, ".field-meta.xml")
    THEN fieldEntry(acc, f)
    ELSE IF endsWith(f.ext, ".cls")
    THEN [files   |-> Append(acc.files, [path |-> pathOf(f), type |-> "ApexClass"]),
          indexes |-> [acc.indexes EXCEPT !.apexClassNames = @ \cup {f.stem}]]
    ELSE IF endsWith(f.ext, ".trigger")
    THEN [files   |-> Append(acc.files, [path |-> pathOf(f), type |-> "ApexTrigger"]),
          indexes |-> [acc.indexes EXCEPT !.apexTriggerNames = @ \cup {f.stem}]]
    ELSE IF endsWith(f.ext, ".flow-meta.xml")
    THEN [files   |-> Append(acc.files, [path |-> pathOf(f), type |-> "Flow"]),
          indexes |-> [acc.indexes EXCEPT !.flowNames = @ \cup {f.stem}]]
    ELSE IF endsWith(f.ext, ".js") /\ underSegment(f, "lwc")
            /\ ~endsWith(f.ext, ".js-meta.xml")
    THEN lwcEntry(acc, f)
    ELSE IF underSegment(f, "aura") /\ (endsWith(f.ext, ".cmp") \/ endsWith(f.ext, ".app"))
    THEN IF ~endsWith(f.ext, "-meta.xml")
         THEN [files   |-> Append(acc.files, [path |-> pathOf(f), type |-> "Aura"]),
               indexes |-> [acc.indexes EXCEPT !.auraNames = @ \cup {f.stem}]]
         ELSE acc
    ELSE acc

RECURSIVE walkDir(_, _, _)
walkDir(acc, t, k) ==
    IF k > Len(t) THEN acc ELSE walkDir(classify(acc, t[k]), t, k + 1)

scanWithIndexes(t) == walkDir([files |-> <<>>, indexes |-> NoIndexes], t, 1)

\* An entry of the tree that is a directory readdirSync cannot list.
isUnlistableDir(f) == f.ext = "/"

\* A scan in which no listing fails.
readdirNeverThrows(t) == FALSE

\* readdirSync(dir) throws somewhere in the walk; nothing catches it.
readdirThrows(t) == \E k \in 1..Len(t) : isUnlistableDir(t[k])

\* The file of the tree a path names.
fileAt(t, path) == t[CHOOSE k \in 1..Len(t) : pathOf(t[k]) = path]

----------------------------------------------------------------------------
(***************************************************************************)
(* CustomObjectParser, LWCParser, AuraParser.  What each reads of a file:  *)
(*   object XML  [valid, label, description, fields], a field being        *)
(*               [fullName, type, referenceTo, formulaRefs], formulaRefs   *)
(*               the matches of the formula pattern in the field's formula *)
(*   LWC module  the class names of its @salesforce/apex imports           *)
(*   Aura markup its [attr, class] attributes, attr controller or provider *)
(***************************************************************************)

\* new Set(objectRefs): the distinct tokens, in order of first occurrence
RECURSIVE distinct(_, _, _)
distinct(names, k, acc) ==
    IF k > Len(names) THEN acc ELSE distinct(names, k + 1, orderedAdd(acc, names[k]))

\* The edges of one field: its referenceTo entries, then its formula tokens.
fieldDeps(componentId, field) ==
    LET refs == IF field.type \in {"Lookup", "MasterDetail"} THEN field.referenceTo
                ELSE <<>>
        toks == distinct(field.formulaRefs, 1, <<>>)
    IN  [i \in 1..Len(refs) |->
            withWeight([from     |-> componentId,
                        to       |-> <<"CustomObject", refs[i]>>,
                        type     |-> "references",
                        metadata |-> [fieldName |-> field.fullName,
                                      relationshipType |-> field.type],
                        weight   |-> NoWeight])]
        \o
        [i \in 1..Len(toks) |->
            withWeight([from     |-> componentId,
                        to       |-> <<"CustomObject", toks[i]>>,
                        type     |-> "references",
                        metadata |-> [fieldName |-> field.fullName,
                                      source |-> "formula"],
                        weight   |-> NoWeight])]

RECURSIVE fieldsDeps(_, _, _)
fieldsDeps(componentId, fields, k) ==
    IF k > Len(fields) THEN <<>>
    ELSE fieldDeps(componentId, fields[k]) \o fieldsDeps(componentId, fields, k + 1)

\* CustomObjectParser.parse(filePath): throws when the file cannot be read
\* or its XML has no CustomObject root.
rootElements(f) == SelectSeq(f.content, LAMBDA e : e.kind = "CustomObject")

customObjectParse(f) ==
    IF ~f.readable \/ rootElements(f) = <<>> THEN [outcome |-> "threw"]
    ELSE LET obj == rootElements(f)[1]
         IN  [outcome      |-> "returned",
              component    |-> [id |-> <<"CustomObject", parentDir(f)>>,
                                name |-> <<parentDir(f)>>, type |-> "CustomObject",
                                filePath |-> pathOf(f), label |-> obj.label,
                                description |-> obj.description],
              dependencies |-> fieldsDeps(<<"CustomObject", parentDir(f)>>,
                                          obj.fields, 1)]

\* An LWCParser.parse without seenApex: one edge per import statement.
lwcParseEveryImport(f, componentId) ==
    IF ~f.readable THEN <<>>
    ELSE LET imports == SelectSeq(f.content, LAMBDA e : e.kind = "import")
         IN  [i \in 1..Len(imports) |->
                withWeight([from     |-> componentId,
                            to       |-> <<"ApexClass", imports[i].name>>,
                            type     |-> "uses",
                            metadata |-> [source |-> "lwc_apex_import"],
                            weight   |-> NoWeight])]

\* LWCParser.parse(filePath, componentId): a third argument is not read.
lwcParse(f, componentId) ==
    IF ~f.readable THEN <<>>
    ELSE LET imports == SelectSeq(f.content, LAMBDA e : e.kind = "import")
             classes == distinct([i \in 1..Len(imports) |-> imports[i].name], 1, <<>>)
         IN  [i \in 1..Len(classes) |->
                withWeight([from     |-> componentId,
                            to       |-> <<"ApexClass", classes[i]>>,
                            type     |-> "uses",
                            metadata |-> [source |-> "lwc_apex_import"],
                            weight   |-> NoWeight])]

\* An AuraParser.parse with one seenApex per pattern: a class named by a
\* controller attribute and by a provider attribute gets two edges.
auraParsePerAttribute(preds, ix, f, componentId) ==
    IF ~f.readable THEN <<>>
    ELSE LET controllers == SelectSeq(f.content, LAMBDA a : a.attr = "controller")
             providers == SelectSeq(f.content, LAMBDA a : a.attr = "provider")
             names == distinct([i \in 1..Len(controllers) |-> controllers[i].class], 1, <<>>)
                      \o distinct([i \in 1..Len(providers) |-> providers[i].class], 1, <<>>)
             kept == SelectSeq(names,
                               LAMBDA n : ~preds.isApexClass \/ isApexClass(ix, n))
         IN  [i \in 1..Len(kept) |->
                withWeight([from     |-> componentId,
                            to       |-> <<"ApexClass", kept[i]>>,
                            type     |-> "uses",
                            metadata |-> [source |-> "aura_controller"],
                            weight   |-> NoWeight])]

\* AuraParser.parse(filePath, componentId, isApexClass?): the controller
\* attributes first, then the provider attributes.
auraParse(preds, ix, f, componentId) ==
    IF ~f.readable THEN <<>>
    ELSE LET found == SelectSeq(f.content, LAMBDA a : a.attr = "controller")
                      \o SelectSeq(f.content, LAMBDA a : a.attr = "provider")
             names == [i \in 1..Len(found) |-> found[i].class]
             kept == distinct(SelectSeq(names,
                                        LAMBDA n : ~preds.isApexClass
                                                   \/ isApexClass(ix, n)), 1, <<>>)
         IN  [i \in 1..Len(kept) |->
                withWeight([from     |-> componentId,
                            to       |-> <<"ApexClass", kept[i]>>,
                            type     |-> "uses",
                            metadata |-> [source |-> "aura_controller"],
                            weight   |-> NoWeight])]

\* ApexParser.parse on a file of the tree: readFileSync throws on an
\* unreadable file.
apexParseFile(p, ix, map, type, f) ==
    IF ~f.readable THEN [outcome |-> "threw", map |-> map]
    ELSE apexParse(p, ix, map, type, f.stem, pathOf(f), f.content)

\* /@\s*[Ii]sTest\b/.test(content), false when the file cannot be read
isTestClass(f) ==
    IF ~f.readable THEN FALSE
    ELSE \E k \in 1..Len(f.content) : f.content[k].kind = "isTest"

----------------------------------------------------------------------------
(***************************************************************************)
(* MetadataAnalyzer.analyze.  One run: pc is "start" before the scan,      *)
(* "awaitProgress" while the promise the progress callback returned is     *)
(* pending, "loop" between two files, "done" once analyze has returned.    *)
(***************************************************************************)

RECURSIVE addDependencies(_, _, _)
\* dependencies.forEach(dep => graphBuilder.addDependency(dep))
addDependencies(g, deps, k) ==
    IF k > Len(deps) THEN g ELSE addDependencies(addDependency(g, deps[k]), deps, k + 1)

\* onProgress(processed, files.length); handled is history, the number of
\* files the loop has been through at the time of the call.
progressCall(done, total, handled) ==
    [processed |-> done, total |-> total, handled |-> handled]

\* A count that leaves out the placeholders, which carry no filePath.
countOfTypeFiled(components, type) ==
    Cardinality({id \in DOMAIN components :
                    /\ components[id].type = type
                    /\ components[id].filePath # undefined})

\* The counts of the stats block.
countOfType(components, type) ==
    Cardinality({id \in DOMAIN components : components[id].type = type})

statsOf(g) ==
    [totalComponents   |-> Cardinality(DOMAIN g.components),
     componentsByType  |->
        [t \in {g.components[id].type : id \in DOMAIN g.components} |->
            countOfType(g.components, t)],
     totalDependencies |-> Len(g.dependencies)]

\* A slip in the test-class gate: the file is skipped only after its
\* component was registered.
afterTestClassRegisters(g, f) ==
    addComponent(g, [id |-> <<"ApexClass", f.stem>>, name |-> <<f.stem>>,
                     type |-> "ApexClass", filePath |-> pathOf(f),
                     label |-> undefined, description |-> undefined])

\* if (this.isTestClass(file.path)) continue: the accumulator it leaves
afterTestClass(g, f) == g

----------------------------------------------------------------------------
(***************************************************************************)
(* Values of the variables a specification does not use.                   *)
(***************************************************************************)
NoDep == [from |-> <<"none">>, to |-> <<"none">>, type |-> "none",
          metadata |-> NoMetadata, weight |-> NoWeight]

NoParse == [outcome |-> "none"]

GraphIdle == graph = EmptyGraph /\ callLog = <<>>

WeightIdle == dep = NoDep /\ weights = <<>>

NoResult == [returned |-> FALSE]

NoPage == [loaded |-> FALSE]

NoRuns == <<>>

AnalyzeIdle ==
    /\ tree = <<>> /\ files = <<>> /\ indexes = NoIndexes /\ objectNameMap = <<>>
    /\ idx = 0 /\ processed = 0 /\ pc = "idle" /\ onProgress = FALSE
    /\ progressLog = <<>> /\ pending = FALSE /\ result = NoResult
    /\ callerPreds = NoPreds /\ parsed = NoParse /\ resolveLog = <<>>
    /\ page = NoPage /\ runs = NoRuns

analyzeVars == <<tree, files, indexes, objectNameMap, idx, processed, pc,
                 onProgress, progressLog, pending, result, callerPreds, parsed,
                 resolveLog, page, runs>>

----------------------------------------------------------------------------
(***************************************************************************)
(* SpecGraph: a GraphBuilder driven through its public methods by any      *)
(* caller.  callLog records the calls; graph is the builder's state.       *)
(***************************************************************************)
GIds == { <<"CustomObject", "Foo">>, <<"A", "b", "c">>, <<"Foo">>, <<"", "x">> }

GComponents ==
    UNION { { [id |-> i, name |-> <<"N1">>, type |-> "CustomObject",
               filePath |-> "p1", label |-> "L1", description |-> "D1"],
              [id |-> i, name |-> <<"N2">>, type |-> "ApexClass",
               filePath |-> "p2", label |-> undefined, description |-> undefined] }
            : i \in GIds }
    \cup { [id |-> <<"CustomObject", "Foo">>, name |-> <<"N1">>,
            type |-> "CustomObject", filePath |-> "p1", label |-> "L2",
            description |-> "D1"] }

GDeps ==
    { [from |-> f, to |-> t, type |-> "uses",
       metadata |-> IF Len(t) = 1 THEN NoMetadata ELSE [source |-> "dml"],
       weight |-> IF Len(t) = 1 THEN NoWeight ELSE 6]
      : f \in { <<"CustomObject", "Foo">>, <<"Foo">> }, t \in GIds }

InitGraph == GraphIdle /\ WeightIdle /\ AnalyzeIdle

AddComponent(c) ==
    /\ Len(callLog) < MaxCalls
    /\ graph' = addComponent(graph, c)
    /\ callLog' = Append(callLog, [op |-> "addComponent", arg |-> c])
    /\ UNCHANGED <<dep, weights, analyzeVars>>

AddDependency(d) ==
    /\ Len(callLog) < MaxCalls
    /\ graph' = addDependency(graph, d)
    /\ callLog' = Append(callLog, [op |-> "addDependency", arg |-> d])
    /\ UNCHANGED <<dep, weights, analyzeVars>>

NextGraph ==
    \/ \E c \in GComponents : AddComponent(c)
    \/ \E d \in GDeps : AddDependency(d)

SpecGraph == InitGraph /\ [][NextGraph]_vars

\* Whether a logged call names id: as the component's id, or as an endpoint.
Touches(call, id) ==
    \/ call.op = "addComponent" /\ call.arg.id = id
    \/ call.op = "addDependency" /\ (call.arg.from = id \/ call.arg.to = id)

Touched(id) == \E k \in 1..Len(callLog) : Touches(callLog[k], id)

FirstTouch(id) ==
    CHOOSE k \in 1..Len(callLog) :
        /\ Touches(callLog[k], id)
        /\ \A j \in 1..(k - 1) : ~Touches(callLog[j], id)

\* C1: addComponent is first-write-wins.  For every id whose first call is
\* addComponent(c1), build() returns under that id exactly the attributes of
\* c1, whatever calls (addComponent with the same id and other attributes
\* included) came after it.
C1_FirstWriteWins ==
    \A id \in GIds :
        (Touched(id) /\ callLog[FirstTouch(id)].op = "addComponent")
        => /\ id \in DOMAIN build(graph).components
           /\ build(graph).components[id] = callLog[FirstTouch(id)].arg

\* C1 witness: an id registered by addComponent(c1) and then handed to
\* addComponent again with a different label.
C1_Witness ==
    \E j, k \in 1..Len(callLog) :
        /\ j < k
        /\ j = FirstTouch(callLog[j].arg.id)
        /\ callLog[j].op = "addComponent" /\ callLog[k].op = "addComponent"
        /\ callLog[j].arg.id = callLog[k].arg.id
        /\ callLog[j].arg.label # callLog[k].arg.label

\* C2: an id first named as an endpoint of addDependency keeps its placeholder:
\* build() returns for it the type and name split from the id and no filePath,
\* label or description, whatever a later addComponent for that id carried.
C2_PlaceholderKept ==
    \A id \in GIds :
        (Touched(id) /\ callLog[FirstTouch(id)].op = "addDependency")
        => /\ id \in DOMAIN build(graph).components
           /\ build(graph).components[id] =
                [id          |-> id,
                 name        |-> placeholderAttrs(id).name,
                 type        |-> IF id[1] = "" THEN "Unknown" ELSE id[1],
                 filePath    |-> undefined,
                 label       |-> undefined,
                 description |-> undefined]

\* C2 witness: an endpoint of an addDependency call that a later addComponent
\* call names as its id.
C2_Witness ==
    \E j, k \in 1..Len(callLog) :
        /\ j < k
        /\ callLog[j].op = "addDependency" /\ callLog[k].op = "addComponent"
        /\ callLog[j].arg.to = callLog[k].arg.id
        /\ j = FirstTouch(callLog[k].arg.id)
        /\ callLog[k].arg.filePath # undefined

----------------------------------------------------------------------------
\* The addDependency calls made so far, in call order.
DependencyCalls == SelectSeq(callLog, LAMBDA call : call.op = "addDependency")

\* C25: edges are append-only and never deduplicated: build().dependencies
\* has exactly one entry per addDependency call, in call order, with the
\* call's from, to, type, weight and metadata; n calls with the same
\* (from, to) yield n entries.
C25_EdgesAppendOnly ==
    /\ Len(build(graph).dependencies) = Len(DependencyCalls)
    /\ \A k \in 1..Len(DependencyCalls) :
          build(graph).dependencies[k] = DependencyCalls[k].arg

\* C25 witness: two addDependency calls with the same endpoints, with a call
\* between them, and build() returns an entry for each.
C25_Witness ==
    /\ Len(callLog) = 3
    /\ callLog[1].op = "addDependency" /\ callLog[3].op = "addDependency"
    /\ callLog[1].arg.from = callLog[3].arg.from
    /\ callLog[1].arg.to = callLog[3].arg.to
    /\ callLog[2] # callLog[1]
    /\ Len(build(graph).dependencies) >= 2

----------------------------------------------------------------------------
\* The ids that have a placeholder: first named as an endpoint of
\* addDependency.
PlaceholderIds ==
    { id \in GIds : Touched(id) /\ callLog[FirstTouch(id)].op = "addDependency" }

\* C26: the placeholder addDependency synthesizes for an unregistered id has
\* as type the part of the id before its first colon and as name everything
\* after that first colon; an id without a colon gets the type "Unknown".
C26_PlaceholderSplitsOnFirstColon ==
    \A id \in PlaceholderIds :
        IF Len(id) = 1
        THEN build(graph).components[id].type = "Unknown"
        ELSE /\ build(graph).components[id].type = id[1]
             /\ build(graph).components[id].name = Tail(id)

----------------------------------------------------------------------------
\* C28: endpoint closure: after any sequence of addComponent and
\* addDependency calls, every dependency build() returns has its from id and
\* its to id among the keys of build().components.
C28_EndpointClosure ==
    \A k \in 1..Len(build(graph).dependencies) :
        /\ build(graph).dependencies[k].from \in DOMAIN build(graph).components
        /\ build(graph).dependencies[k].to \in DOMAIN build(graph).components

\* C28 witness: no addComponent call was made, and the two endpoints of an
\* addDependency call are components built from placeholders.
C28_Witness ==
    /\ Len(callLog) >= 1
    /\ \A k \in 1..Len(callLog) : callLog[k].op = "addDependency"
    /\ callLog[1].arg.from # callLog[1].arg.to
    /\ {callLog[1].arg.from, callLog[1].arg.to} \subseteq DOMAIN build(graph).components
    /\ Len(build(graph).dependencies) = Len(callLog)

----------------------------------------------------------------------------
(***************************************************************************)
(* SpecWeight: DependencyWeightCalculator.calculate called by any caller   *)
(* on one dependency, any number of times, with calls on other             *)
(* dependencies in between.                                                *)
(***************************************************************************)
WIds == { <<"Flow", "F">>, <<"ApexClass", "A">>, <<"ApexTrigger", "T">>,
          <<"CustomObject", "O">>, <<"LightningWebComponent", "l">>,
          <<"AuraComponent", "a">>, <<"Foo">>, <<"", "x">> }

WTypes == { "uses", "references", "triggers_on" }

WMetadata == { NoMetadata, [source |-> "dml"], [source |-> "soql"],
               [source |-> "soql_or_dml"], [source |-> "type_reference"],
               [source |-> "formula"],
               [fieldName |-> "F", relationshipType |-> "Lookup"] }

WDeps == [from : WIds, to : WIds, type : WTypes, metadata : WMetadata,
          weight : {NoWeight}]

WOthers == { [from |-> <<"Flow", "F">>, to |-> <<"ApexClass", "A">>,
              type |-> "uses", metadata |-> NoMetadata, weight |-> NoWeight],
             [from |-> <<"ApexClass", "A">>, to |-> <<"CustomObject", "O">>,
              type |-> "references", metadata |-> [source |-> "type_reference"],
              weight |-> NoWeight] }

InitWeight == GraphIdle /\ AnalyzeIdle /\ dep \in WDeps /\ weights = <<>>

Calculate(d) ==
    /\ Len(weights) < MaxCalcs
    /\ weights' = Append(weights, [dep |-> d, weight |-> calculate(d)])
    /\ UNCHANGED <<graph, callLog, dep, analyzeVars>>

NextWeight ==
    \/ Calculate(dep)
    \/ \E d \in WOthers : Calculate(d)

SpecWeight == InitWeight /\ [][NextWeight]_vars

WeightScale == {1, 2, 3, 5, 6, 7, 8, 9, 10}

TableWeight(fromType, toType, edgeType, source) ==
    IF fromType = "Flow" /\ toType = "ApexClass" THEN 10
    ELSE IF fromType = "Flow" /\ toType = "CustomObject" THEN 9
    ELSE IF fromType \in {"LightningWebComponent", "AuraComponent"}
            /\ toType = "ApexClass" THEN 8
    ELSE IF fromType = "ApexTrigger" /\ toType = "ApexClass" THEN 8
    ELSE IF fromType = "ApexClass" /\ toType = "Flow" THEN 7
    ELSE IF fromType = "ApexTrigger" /\ toType = "CustomObject"
            /\ edgeType = "triggers_on" THEN 3
    ELSE IF fromType = "CustomObject" /\ toType = "CustomObject" THEN 6
    ELSE IF fromType = "ApexClass" /\ toType = "ApexClass" THEN 5
    ELSE IF fromType \in {"ApexClass", "ApexTrigger"} /\ toType = "CustomObject"
            /\ source = "dml" THEN 6
    ELSE IF fromType \in {"ApexClass", "ApexTrigger"} /\ toType = "CustomObject"
            /\ source \in {"soql", "soql_or_dml"} THEN 2
    ELSE IF fromType \in {"ApexClass", "ApexTrigger"} /\ toType = "CustomObject"
            /\ source = "type_reference" THEN 1
    ELSE IF fromType \in {"ApexClass", "ApexTrigger"} /\ toType = "CustomObject"
         THEN 2
    ELSE 3

\* The type an id stands for in the table: the text before its first colon.
TableType(id) == IF id[1] = "" THEN "Unknown" ELSE id[1]

----------------------------------------------------------------------------
(***************************************************************************)
(* SpecApex: ApexParser.parse called once on one Apex file, by analyze     *)
(* (all optional parameters) or bare (none), with the registry seeded from *)
(* the scanner's indexes.                                                  *)
(***************************************************************************)
ApexStatements ==
    { [kind |-> "dml", name |-> "Account"], [kind |-> "dml", name |-> "foo__c"],
      [kind |-> "soql", name |-> "Account"], [kind |-> "soql", name |-> "FOO__c"],
      [kind |-> "select", name |-> "Bar__c", object |-> "Account"],
      [kind |-> "type", name |-> "Foo__c"],
      [kind |-> "new", name |-> "Contact"], [kind |-> "new", name |-> "Foo__c"],
      [kind |-> "new", name |-> "FOO__c"],
      [kind |-> "new", name |-> "Helper"], [kind |-> "new", name |-> "Widget"],
      [kind |-> "trigger", name |-> "Account"],
      [kind |-> "trigger", name |-> "Foo__c"] }

ApexContents == UNION { [1..n -> ApexStatements] : n \in 0..MaxStmts }

ApexFiles ==
    { [dirs |-> <<"classes">>, stem |-> "Sample", ext |-> e, readable |-> TRUE,
       content |-> c] : e \in {".cls", ".trigger"}, c \in ApexContents }
    \cup { [dirs |-> <<"classes">>, stem |-> "Sample", ext |-> ".cls",
            readable |-> FALSE, content |-> <<>>] }

ApexIndexes ==
    { [NoIndexes EXCEPT !.objectNames = <<"Foo__c">>, !.apexClassNames = {"Helper"}],
      [NoIndexes EXCEPT !.fieldNames = {"Contact"}, !.apexClassNames = {"Helper"}] }

InitApex ==
    /\ GraphIdle /\ WeightIdle
    /\ \E f \in ApexFiles : tree = <<f>>
    /\ files = <<>>
    /\ indexes \in ApexIndexes
    /\ objectNameMap = buildObjectNameMap(indexes)
    /\ callerPreds \in {AllPreds, NoPreds}
    /\ idx = 0 /\ processed = 0 /\ pc = "parse" /\ onProgress = FALSE
    /\ progressLog = <<>> /\ pending = FALSE /\ result = NoResult
    /\ parsed = NoParse /\ resolveLog = <<>> /\ page = NoPage /\ runs = NoRuns

\* The type analyze passes for a file of the list.
apexTypeOf(f) == IF f.ext = ".cls" THEN "ApexClass" ELSE "ApexTrigger"

ApexParse ==
    /\ pc = "parse"
    /\ parsed' = apexParseFile(callerPreds, indexes, objectNameMap,
                               apexTypeOf(tree[1]), tree[1])
    /\ objectNameMap' = parsed'.map
    /\ pc' = "parsed"
    /\ UNCHANGED <<graph, callLog, dep, weights, tree, files, indexes, idx,
                   processed, onProgress, progressLog, pending, result,
                   callerPreds, resolveLog, page, runs>>

NextApex == ApexParse

SpecApex == InitApex /\ [][NextApex]_vars

Range(seq) == { seq[i] : i \in 1..Len(seq) }

\* The object a matched token stands for once parse has returned: its
\* canonical name in the registry when a resolver was supplied, else itself.
Canonical(name) ==
    IF callerPreds.resolver THEN objectNameMap[toLowerCase(name)] ELSE name

ParseReturned == pc = "parsed" /\ parsed.outcome = "returned"

DmlObjects ==
    { Canonical(st.name) : st \in { x \in Range(tree[1].content) : x.kind = "dml" } }

SoqlObjects ==
    { Canonical(st.name) : st \in { x \in Range(tree[1].content) : x.kind = "soql" } }
    \cup
    { Canonical(st.object) : st \in { x \in Range(tree[1].content) : x.kind = "select" } }

\* The edges of the result that the DML/SOQL scan emitted.
ScanEdges ==
    { k \in 1..Len(parsed.dependencies) :
        /\ parsed.dependencies[k].type = "uses"
        /\ parsed.dependencies[k].metadata \in {[source |-> "dml"], [source |-> "soql"]} }

TriggerEdges ==
    { k \in 1..Len(parsed.dependencies) : parsed.dependencies[k].type = "triggers_on" }

DeclaredObjects ==
    { k \in 1..Len(tree[1].content) : tree[1].content[k].kind = "trigger" }

\* C8: an ApexTrigger file with a trigger declaration yields the component
\* ApexTrigger:<file name> and exactly one triggers_on edge, to
\* CustomObject:<resolved object of the first declaration>, weight 3, whatever
\* other edges the file yields for that object; an ApexClass file yields no
\* triggers_on edge.
C8_TriggersOn ==
    ParseReturned =>
        IF apexTypeOf(tree[1]) = "ApexTrigger" /\ DeclaredObjects # {}
        THEN /\ parsed.component.id = <<"ApexTrigger", tree[1].stem>>
             /\ parsed.component.type = "ApexTrigger"
             /\ Cardinality(TriggerEdges) = 1
             /\ \A k \in TriggerEdges :
                   /\ parsed.dependencies[k].from = <<"ApexTrigger", tree[1].stem>>
                   /\ parsed.dependencies[k].to =
                        <<"CustomObject",
                          Canonical(tree[1].content[
                              CHOOSE d \in DeclaredObjects :
                                  \A e \in DeclaredObjects : d <= e].name)>>
                   /\ parsed.dependencies[k].weight = 3
        ELSE TriggerEdges = {}

\* C8 witness: a trigger declared on Account whose body also has a DML match
\* and a SOQL match of Account; the result carries the triggers_on edge and
\* the uses edge to CustomObject:Account.
C8_Witness ==
    /\ ParseReturned
    /\ apexTypeOf(tree[1]) = "ApexTrigger"
    /\ [kind |-> "trigger", name |-> "Account"] \in Range(tree[1].content)
    /\ [kind |-> "dml", name |-> "Account"] \in Range(tree[1].content)
    /\ \E j, k \in 1..Len(parsed.dependencies) :
          /\ parsed.dependencies[j].to = <<"CustomObject", "Account">>
          /\ parsed.dependencies[j].type = "uses"
          /\ parsed.dependencies[k].to = <<"CustomObject", "Account">>
          /\ parsed.dependencies[k].type = "triggers_on"

----------------------------------------------------------------------------
\* The identifiers the instantiation scan looks at: the names after `new`
\* that are not built-in classes.
NewIdentifiers ==
    { st.name : st \in { x \in Range(tree[1].content) :
                            x.kind = "new" /\ startsUpper(x.name) } } \ standardClasses

\* The keys of the registry when the instantiation scan runs: those of the
\* seed and, when a resolver was supplied, the names the DML, SOQL and
\* type-reference scans resolved before it.
KeysAtInstantiation ==
    DOMAIN buildObjectNameMap(indexes)
    \cup (IF callerPreds.resolver
          THEN { toLowerCase(n) : n \in Range(dmlMatches(tree[1].content))
                                        \cup Range(soqlMatches(tree[1].content)) }
               \cup { toLowerCase(m.name) : m \in Range(typeMatches(tree[1].content)) }
          ELSE {})

\* The identifiers for which isObjectName is supplied and true at the call.
ObjectIdentifiers ==
    { id \in NewIdentifiers :
        /\ callerPreds.isObjectName
        /\ toLowerCase(id) \in KeysAtInstantiation
        /\ id \notin indexes.fieldNames }

\* The other identifiers that isApexClass accepts, all of them when no
\* isApexClass was supplied.
ClassIdentifiers ==
    { id \in NewIdentifiers \ ObjectIdentifiers :
        ~callerPreds.isApexClass \/ id \in indexes.apexClassNames }

EdgesTagged(source) ==
    { k \in 1..Len(parsed.dependencies) :
        parsed.dependencies[k].metadata = [source |-> source] }

\* C21: the instantiation scan yields at most one edge per distinct
\* identifier after `new` that is not a built-in class, and the cases are
\* exclusive: a uses edge to CustomObject:<resolved> tagged
\* sobject_instantiation and no ApexClass edge when isObjectName is true;
\* otherwise a uses edge to ApexClass:<id> tagged instantiation when
\* isApexClass is true or was not supplied; otherwise no edge.
C21_InstantiationCases ==
    ParseReturned =>
        /\ Cardinality(EdgesTagged("sobject_instantiation")) = Cardinality(ObjectIdentifiers)
        /\ Cardinality(EdgesTagged("instantiation")) = Cardinality(ClassIdentifiers)
        /\ \A id \in ObjectIdentifiers :
              \E k \in EdgesTagged("sobject_instantiation") :
                  parsed.dependencies[k].to = <<"CustomObject", Canonical(id)>>
        /\ \A id \in ClassIdentifiers :
              \E k \in EdgesTagged("instantiation") :
                  parsed.dependencies[k].to = <<"ApexClass", id>>
        /\ \A k \in EdgesTagged("sobject_instantiation") \cup EdgesTagged("instantiation") :
              /\ parsed.dependencies[k].type = "uses"
              /\ parsed.dependencies[k].from = parsed.component.id
        /\ \A k \in 1..Len(parsed.dependencies) :
              parsed.dependencies[k].to[1] = "ApexClass" =>
                  /\ k \in EdgesTagged("instantiation")
                  /\ parsed.dependencies[k].to[2] \in ClassIdentifiers

\* C21 witness: analyze parses a file that instantiates Helper, a scanned
\* class, Widget, which no class file defines, and the object Foo__c: the
\* result has one instantiation edge, to ApexClass:Helper, and one
\* sobject_instantiation edge.
C21_Witness ==
    /\ ParseReturned /\ callerPreds = AllPreds
    /\ Len(tree[1].content) = 3
    /\ Range(tree[1].content) = { [kind |-> "new", name |-> "Helper"],
                                  [kind |-> "new", name |-> "Widget"],
                                  [kind |-> "new", name |-> "Foo__c"] }
    /\ Cardinality(EdgesTagged("instantiation")) = 1
    /\ Cardinality(EdgesTagged("sobject_instantiation")) = 1

----------------------------------------------------------------------------
\* C22: the type-reference scan emits at most one references edge tagged
\* type_reference per resolved object name and file, and none for an object
\* the DML/SOQL scan of the file covered: no result of parse has both a
\* dml/soql uses edge and a type_reference edge to the same CustomObject id.
C22_TypeReferenceOncePerObject ==
    ParseReturned =>
        /\ \A j, k \in EdgesTagged("type_reference") :
              parsed.dependencies[j].to = parsed.dependencies[k].to => j = k
        /\ \A k \in EdgesTagged("type_reference") :
              /\ parsed.dependencies[k].type = "references"
              /\ parsed.dependencies[k].to[1] = "CustomObject"
              /\ \A j \in ScanEdges :
                    parsed.dependencies[j].to # parsed.dependencies[k].to

\* C22 witness: a file with a DML statement on foo__c and a declaration of
\* type Foo__c, parsed with a resolver: the object has its dml edge and no
\* type_reference edge.
C22_Witness ==
    /\ ParseReturned /\ callerPreds.resolver
    /\ [kind |-> "dml", name |-> "foo__c"] \in Range(tree[1].content)
    /\ [kind |-> "type", name |-> "Foo__c"] \in Range(tree[1].content)
    /\ EdgesTagged("type_reference") = {}
    /\ \E k \in ScanEdges :
          /\ parsed.dependencies[k].to = <<"CustomObject", Canonical("Foo__c")>>
          /\ parsed.dependencies[k].metadata.source = "dml"

----------------------------------------------------------------------------
(***************************************************************************)
(* SpecAura: AuraParser.parse called once on one .cmp file, with the       *)
(* isApexClass of analyze or without a predicate.                          *)
(***************************************************************************)
AuraAttributes ==
    { [kind |-> "attribute", attr |-> a, class |-> c] :
        a \in {"controller", "provider"}, c \in {"Helper", "Widget", "AccountController"} }

AuraFiles ==
    { [dirs |-> <<"aura", "bar">>, stem |-> "bar", ext |-> ".cmp", readable |-> TRUE,
       content |-> c] : c \in UNION { [1..n -> AuraAttributes] : n \in 0..MaxAttrs } }
    \cup { [dirs |-> <<"aura", "bar">>, stem |-> "bar", ext |-> ".cmp",
            readable |-> FALSE, content |-> <<>>] }

InitAura ==
    /\ GraphIdle /\ WeightIdle
    /\ \E f \in AuraFiles : tree = <<f>>
    /\ files = <<>>
    /\ indexes = [NoIndexes EXCEPT !.apexClassNames = {"Helper", "AccountController"}]
    /\ objectNameMap = buildObjectNameMap(indexes)
    /\ callerPreds \in {AllPreds, NoPreds}
    /\ idx = 0 /\ processed = 0 /\ pc = "parseAura" /\ onProgress = FALSE
    /\ progressLog = <<>> /\ pending = FALSE /\ result = NoResult
    /\ parsed = NoParse /\ resolveLog = <<>> /\ page = NoPage /\ runs = NoRuns

AuraParse ==
    /\ pc = "parseAura"
    /\ parsed' = [outcome      |-> "returned",
                  dependencies |-> auraParse(callerPreds, indexes, tree[1],
                                             <<"AuraComponent", tree[1].stem>>)]
    /\ pc' = "parsed"
    /\ UNCHANGED <<graph, callLog, dep, weights, tree, files, indexes, objectNameMap,
                   idx, processed, onProgress, progressLog, pending, result,
                   callerPreds, resolveLog, page, runs>>

NextAura == AuraParse

SpecAura == InitAura /\ [][NextAura]_vars

\* The class names the controller and provider attributes of the file name.
AuraClasses == { a.class : a \in Range(tree[1].content) }

\* C24: AuraParser.parse emits at most one uses edge per distinct class name
\* and file, controller and provider attributes counted together, each
\* tagged aura_controller; when isApexClass is supplied only the names it
\* accepts yield an edge.
C24_AuraOneEdgePerClass ==
    ParseReturned =>
        /\ \A j, k \in 1..Len(parsed.dependencies) :
              parsed.dependencies[j].to = parsed.dependencies[k].to => j = k
        /\ \A k \in 1..Len(parsed.dependencies) :
              /\ parsed.dependencies[k].type = "uses"
              /\ parsed.dependencies[k].metadata = [source |-> "aura_controller"]
              /\ parsed.dependencies[k].from = <<"AuraComponent", tree[1].stem>>
              /\ parsed.dependencies[k].to[1] = "ApexClass"
              /\ parsed.dependencies[k].to[2] \in AuraClasses
              /\ callerPreds.isApexClass =>
                    parsed.dependencies[k].to[2] \in indexes.apexClassNames
        /\ \A c \in AuraClasses :
              (~callerPreds.isApexClass \/ c \in indexes.apexClassNames) =>
                  \E k \in 1..Len(parsed.dependencies) :
                      parsed.dependencies[k].to = <<"ApexClass", c>>

\* C24 witness: a component whose controller and provider are both Helper and
\* which also names Widget, parsed with isApexClass: one edge, to Helper.
C24_Witness ==
    /\ ParseReturned /\ callerPreds.isApexClass
    /\ [kind |-> "attribute", attr |-> "controller", class |-> "Helper"]
          \in Range(tree[1].content)
    /\ [kind |-> "attribute", attr |-> "provider", class |-> "Helper"]
          \in Range(tree[1].content)
    /\ "Widget" \in AuraClasses
    /\ Len(parsed.dependencies) = 1
    /\ parsed.dependencies[1].to = <<"ApexClass", "Helper">>

----------------------------------------------------------------------------
(***************************************************************************)
(* SpecResolve: the registry of one run under the two operations that      *)
(* write it after the seed: resolveObjectName, called by the extractors    *)
(* with any matched name, and the CustomObject branch of the file loop,    *)
(* which stores the name of each object directory in scan order.           *)
(***************************************************************************)
ResolveNames == { "Account", "account", "Foo__c", "foo__c", "FOO__c", "Bar__c" }

ResolveIndexes ==
    { NoIndexes,
      [NoIndexes EXCEPT !.objectNames = <<"Foo__c", "foo__c">>],
      [NoIndexes EXCEPT !.objectNames = <<"ACCOUNT">>] }

InitResolve ==
    /\ GraphIdle /\ WeightIdle
    /\ tree = <<>> /\ files = <<>>
    /\ indexes \in ResolveIndexes
    /\ objectNameMap = buildObjectNameMap(indexes)
    /\ idx = 1 /\ processed = 0 /\ pc = "loop" /\ onProgress = FALSE
    /\ progressLog = <<>> /\ pending = FALSE /\ result = NoResult
    /\ callerPreds = AllPreds /\ parsed = NoParse /\ resolveLog = <<>>
    /\ page = NoPage /\ runs = NoRuns

Resolve(name) ==
    /\ Len(resolveLog) < MaxResolves
    /\ resolveLog' = Append(resolveLog,
                            [op |-> "resolve", name |-> name,
                             result |-> resolveObjectName(objectNameMap, name)])
    /\ objectNameMap' = registerObjectName(objectNameMap, name)
    /\ UNCHANGED <<graph, callLog, dep, weights, tree, files, indexes, idx,
                   processed, pc, onProgress, progressLog, pending, result,
                   callerPreds, parsed, page, runs>>

\* objectNameMap.set(component.name.toLowerCase(), component.name) for the
\* next object directory of the scan
SetObjectName ==
    /\ idx <= Len(indexes.objectNames)
    /\ objectNameMap' = mapSet(objectNameMap, toLowerCase(indexes.objectNames[idx]),
                               indexes.objectNames[idx])
    /\ resolveLog' = Append(resolveLog,
                            [op |-> "set", name |-> indexes.objectNames[idx],
                             result |-> indexes.objectNames[idx]])
    /\ idx' = idx + 1
    /\ UNCHANGED <<graph, callLog, dep, weights, tree, files, indexes,
                   processed, pc, onProgress, progressLog, pending, result,
                   callerPreds, parsed, page, runs>>

NextResolve ==
    \/ \E name \in ResolveNames : Resolve(name)
    \/ SetObjectName

SpecResolve == InitResolve /\ [][NextResolve]_vars

\* The keys the seed of the run holds: the standard objects and the scanned
\* object directories, lower-cased.
SeedKeys ==
    { toLowerCase(n) : n \in Range(STANDARD_OBJECTS) \cup Range(indexes.objectNames) }

Resolves == { k \in 1..Len(resolveLog) : resolveLog[k].op = "resolve" }

SameKey(j, k) == toLowerCase(resolveLog[j].name) = toLowerCase(resolveLog[k].name)

----------------------------------------------------------------------------
(***************************************************************************)
(* Spec: one run of MetadataAnalyzer.analyze on a metadata tree, with or   *)
(* without a progress callback.  The callback's promise always fulfils.    *)
(***************************************************************************)
ProgressEvery == 10

ObjectXml(label, fields) ==
    <<[kind |-> "CustomObject", label |-> label, description |-> undefined,
       fields |-> fields]>>

TreeEntries ==
    { [dirs |-> <<"objects", "Foo__c">>, stem |-> "Foo__c", ext |-> ".object-meta.xml",
       readable |-> TRUE,
       content |-> ObjectXml("Foo", <<[fullName |-> "Owner__c", type |-> "Lookup",
                                       referenceTo |-> <<"Account">>,
                                       formulaRefs |-> <<>>]>>)],
      [dirs |-> <<"objects", "foo__c">>, stem |-> "foo__c", ext |-> ".object-meta.xml",
       readable |-> TRUE, content |-> ObjectXml("foo", <<>>)],
      [dirs |-> <<"objects", "Foo__c", "fields">>, stem |-> "Contact",
       ext |-> ".field-meta.xml", readable |-> TRUE, content |-> <<>>],
      [dirs |-> <<"classes">>, stem |-> "Helper", ext |-> ".cls", readable |-> TRUE,
       content |-> <<[kind |-> "soql", name |-> "FOO__c"],
                     [kind |-> "new", name |-> "Contact"]>>],
      [dirs |-> <<"classes">>, stem |-> "HelperTest", ext |-> ".cls", readable |-> TRUE,
       content |-> <<[kind |-> "isTest"], [kind |-> "dml", name |-> "Account"]>>],
      [dirs |-> <<"classes">>, stem |-> "Broken", ext |-> ".cls", readable |-> FALSE,
       content |-> <<>>],
      [dirs |-> <<"triggers">>, stem |-> "AccountTrigger", ext |-> ".trigger",
       readable |-> TRUE,
       content |-> <<[kind |-> "isTest"], [kind |-> "trigger", name |-> "Account"],
                     [kind |-> "new", name |-> "Helper"]>>],
      [dirs |-> <<"lwc", "foo">>, stem |-> "foo", ext |-> ".js", readable |-> TRUE,
       content |-> <<[kind |-> "import", name |-> "AccountController"],
                     [kind |-> "import", name |-> "Helper"],
                     [kind |-> "import", name |-> "Widget"],
                     [kind |-> "import", name |-> "AccountController"],
                     [kind |-> "import", name |-> "Broken"]>>],
      [dirs |-> <<"lwc", "foo">>, stem |-> "fooUtils", ext |-> ".js", readable |-> TRUE,
       content |-> <<[kind |-> "import", name |-> "Widget"]>>],
      [dirs |-> <<"lwc", "gone">>, stem |-> "gone", ext |-> ".js", readable |-> FALSE,
       content |-> <<>>],
      [dirs |-> <<"aura", "baz">>, stem |-> "baz", ext |-> ".cmp", readable |-> FALSE,
       content |-> <<>>],
      [dirs |-> <<"objects", "Bar__c">>, stem |-> "Bar__c", ext |-> ".object-meta.xml",
       readable |-> TRUE, content |-> <<>>],
      [dirs |-> <<"objects", "Locked">>, stem |-> "", ext |-> "/", readable |-> FALSE,
       content |-> <<>>],
      [dirs |-> <<"aura", "bar">>, stem |-> "bar", ext |-> ".cmp", readable |-> TRUE,
       content |-> <<[kind |-> "attribute", attr |-> "controller", class |-> "Helper"],
                     [kind |-> "attribute", attr |-> "provider", class |-> "Helper"]>>],
      [dirs |-> <<"flows">>, stem |-> "Approve", ext |-> ".flow-meta.xml",
       readable |-> TRUE, content |-> <<>>] }

\* Two files share the directories down to depth p.
SharePrefix(a, b, p) ==
    /\ Len(a.dirs) >= p /\ Len(b.dirs) >= p
    /\ SubSeq(a.dirs, 1, p) = SubSeq(b.dirs, 1, p)

\* walkDir goes through a directory before it leaves it: the files of one
\* directory are next to each other, and no file comes twice.
WalkOrder(t) ==
    /\ \A i, j \in 1..Len(t) : i # j => t[i] # t[j]
    /\ \A i, j, k \in 1..Len(t) :
          (i < j /\ j < k) =>
              \A p \in 1..Len(t[i].dirs) :
                  SharePrefix(t[i], t[k], p) => SharePrefix(t[i], t[j], p)

\* A tree of ProgressEvery flows followed by a test class.
LongTree ==
    [i \in 1..(ProgressEvery + 1) |->
        IF i <= ProgressEvery
        THEN [dirs |-> <<"flows">>, stem |-> "Flow" \o ToString(i),
              ext |-> ".flow-meta.xml", readable |-> TRUE, content |-> <<>>]
        ELSE [dirs |-> <<"zclasses">>, stem |-> "HelperTest", ext |-> ".cls",
              readable |-> TRUE, content |-> <<[kind |-> "isTest"]>>]]

Trees ==
    { t \in UNION { [1..n -> TreeEntries] : n \in 0..MaxFiles } : WalkOrder(t) }
    \cup { LongTree }

Init ==
    /\ GraphIdle /\ WeightIdle
    /\ tree \in Trees
    /\ files = <<>> /\ indexes = NoIndexes /\ objectNameMap = <<>>
    /\ idx = 0 /\ processed = 0 /\ pc = "start"
    /\ onProgress \in BOOLEAN
    /\ progressLog = <<>> /\ pending = FALSE /\ result = NoResult
    /\ callerPreds = AllPreds /\ parsed = NoParse /\ resolveLog = <<>>
    /\ page = NoPage /\ runs = NoRuns

unusedVars == <<callLog, dep, weights, callerPreds, parsed, resolveLog, page, runs>>

\* A call of the callback that is not awaited.
pcWithoutAwait == "loop"

\* await (onProgress(...) ?? Promise.resolve()): where analyze is after the call
pcAfterCallback == "awaitProgress"

\* A loop without its try/catch: the exception leaves analyze.
pcAfterRethrow == "rejected"

\* catch (error) { console.warn(...) }: where analyze is after a file threw
pcAfterCatch == "loop"

\* const { files, indexes } = scanWithIndexes(sourceDir); buildObjectNameMap;
\* new GraphBuilder(); processed = 0; await onProgress?.(0, files.length)
Scan ==
    /\ pc = "start" /\ ~readdirThrows(tree)
    /\ files' = scanWithIndexes(tree).files
    /\ indexes' = scanWithIndexes(tree).indexes
    /\ objectNameMap' = buildObjectNameMap(indexes')
    /\ graph' = EmptyGraph
    /\ processed' = 0
    /\ idx' = 1
    /\ IF onProgress
       THEN /\ progressLog' = Append(progressLog, progressCall(0, Len(files'), 0))
            /\ pending' = TRUE
            /\ pc' = pcAfterCallback
       ELSE /\ UNCHANGED <<progressLog, pending>>
            /\ pc' = "loop"
    /\ UNCHANGED <<tree, onProgress, result, unusedVars>>

\* scanWithIndexes throws out of analyze, before anything else has run.
ScanFails ==
    /\ pc = "start" /\ readdirThrows(tree)
    /\ pc' = "rejected"
    /\ UNCHANGED <<graph, tree, files, indexes, objectNameMap, idx, processed,
                   onProgress, progressLog, pending, result, unusedVars>>

\* The promise the callback returned fulfils; an analyze that awaits it goes on.
ProgressSettles ==
    /\ pending
    /\ pending' = FALSE
    /\ pc' = IF pc = "awaitProgress" THEN "loop" ELSE pc
    /\ UNCHANGED <<graph, tree, files, indexes, objectNameMap, idx, processed,
                   onProgress, progressLog, result, unusedVars>>

InLoop == pc = "loop" /\ idx <= Len(files)

current == fileAt(tree, files[idx].path)

\* The end of one iteration: processed++ and the progress call when the try
\* body ran to its end, nothing when it hit `continue`.
EndOfIteration(completed) ==
    /\ idx' = idx + 1
    /\ IF completed
       THEN /\ processed' = processed + 1
            /\ IF onProgress /\ (processed' % ProgressEvery = 0 \/ processed' = Len(files))
               THEN /\ progressLog' = Append(progressLog,
                                             progressCall(processed', Len(files), idx))
                    /\ pending' = TRUE
                    /\ pc' = pcAfterCallback
               ELSE /\ UNCHANGED <<progressLog, pending>>
                    /\ pc' = "loop"
       ELSE UNCHANGED <<processed, progressLog, pending, pc>>
    /\ UNCHANGED <<tree, files, indexes, onProgress, result, unusedVars>>

\* The end of an iteration whose try body threw: the catch logs and the loop
\* goes to the next file.
Caught ==
    /\ idx' = idx + 1
    /\ pc' = pcAfterCatch
    /\ UNCHANGED <<processed, progressLog, pending, tree, files, indexes,
                   onProgress, result, unusedVars>>

ProcessCustomObject ==
    /\ InLoop /\ files[idx].type = "CustomObject"
    /\ LET r == customObjectParse(current)
       IN  IF r.outcome = "returned"
           THEN /\ objectNameMap' = mapSet(objectNameMap, toLowerCase(parentDir(current)),
                                           parentDir(current))
                /\ graph' = addDependencies(addComponent(graph, r.component),
                                            r.dependencies, 1)
                /\ EndOfIteration(TRUE)
           ELSE /\ UNCHANGED <<objectNameMap, graph>>
                /\ Caught

SkipTestClass ==
    /\ InLoop /\ files[idx].type = "ApexClass" /\ isTestClass(current)
    /\ graph' = afterTestClass(graph, current)
    /\ UNCHANGED objectNameMap
    /\ EndOfIteration(FALSE)

ProcessApex ==
    /\ InLoop
    /\ \/ files[idx].type = "ApexClass" /\ ~isTestClass(current)
       \/ files[idx].type = "ApexTrigger"
    /\ LET r == apexParseFile(AllPreds, indexes, objectNameMap, files[idx].type, current)
       IN  IF r.outcome = "returned"
           THEN /\ objectNameMap' = r.map
                /\ graph' = addDependencies(addComponent(graph, r.component),
                                            r.dependencies, 1)
                /\ EndOfIteration(TRUE)
           ELSE /\ UNCHANGED <<objectNameMap, graph>>
                /\ Caught

ProcessLWC ==
    /\ InLoop /\ files[idx].type = "LWC"
    /\ LET componentId == <<"LightningWebComponent", parentDir(current)>>
       IN  graph' = addDependencies(
                        addComponent(graph,
                            [id |-> componentId, name |-> <<parentDir(current)>>,
                             type |-> "LightningWebComponent",
                             filePath |-> files[idx].path, label |-> undefined,
                             description |-> undefined]),
                        lwcParse(current, componentId), 1)
    /\ UNCHANGED objectNameMap
    /\ EndOfIteration(TRUE)

ProcessAura ==
    /\ InLoop /\ files[idx].type = "Aura"
    /\ LET componentId == <<"AuraComponent", current.stem>>
       IN  graph' = addDependencies(
                        addComponent(graph,
                            [id |-> componentId, name |-> <<current.stem>>,
                             type |-> "AuraComponent",
                             filePath |-> files[idx].path, label |-> undefined,
                             description |-> undefined]),
                        auraParse(AllPreds, indexes, current, componentId), 1)
    /\ UNCHANGED objectNameMap
    /\ EndOfIteration(TRUE)

ProcessFlow ==
    /\ InLoop /\ files[idx].type = "Flow"
    /\ graph' = addComponent(graph,
                    [id |-> <<"Flow", current.stem>>, name |-> <<current.stem>>,
                     type |-> "Flow", filePath |-> files[idx].path,
                     label |-> undefined, description |-> undefined])
    /\ UNCHANGED objectNameMap
    /\ EndOfIteration(TRUE)

\* const graph = graphBuilder.build(); ...; return {graph, stats}
Finish ==
    /\ pc = "loop" /\ idx > Len(files)
    /\ result' = [returned |-> TRUE, graph |-> build(graph),
                  stats |-> statsOf(build(graph))]
    /\ pc' = "done"
    /\ UNCHANGED <<graph, tree, files, indexes, objectNameMap, idx, processed,
                   onProgress, progressLog, pending, unusedVars>>

Next ==
    \/ Scan
    \/ ScanFails
    \/ ProgressSettles
    \/ ProcessCustomObject
    \/ SkipTestClass
    \/ ProcessApex
    \/ ProcessLWC
    \/ ProcessAura
    \/ ProcessFlow
    \/ Finish

Spec == Init /\ [][Next]_vars

----------------------------------------------------------------------------
\* C3: within one analyze run, once a lower-cased key has a canonical string
\* in the registry, no later operation of the run changes the value stored
\* under that key (first write wins), so every later resolve of that key
\* returns the same string.
C3_RegistryFirstWriteWins ==
    [][\A key \in DOMAIN objectNameMap :
          /\ key \in DOMAIN objectNameMap'
          /\ objectNameMap'[key] = objectNameMap[key]]_vars

\* The file the loop is about to process is an ApexClass carrying @isTest.
AtTestClass == InLoop /\ files[idx].type = "ApexClass" /\ isTestClass(current)

\* The file the loop is about to process is a readable ApexTrigger carrying
\* @isTest.
AtTestTrigger ==
    /\ InLoop /\ files[idx].type = "ApexTrigger"
    /\ current.readable /\ isTestClass(current)

\* The triggers_on edges of g that leave the component id.
TriggersOnFrom(g, id) ==
    { k \in 1..Len(g.edges) : g.edges[k].from = id /\ g.edges[k].type = "triggers_on" }

\* C9: processing an ApexClass file whose content carries @isTest leaves the
\* accumulator unchanged, no component and no edge added, whatever else the
\* file contains; an ApexTrigger file carrying @isTest is still parsed, its
\* component and its edges are added.
C9_TestClassGate ==
    [][/\ AtTestClass => (graph' = graph /\ idx' = idx + 1)
       /\ AtTestTrigger =>
            /\ hasNode(graph', <<"ApexTrigger", current.stem>>)
            /\ graph'.nodes[<<"ApexTrigger", current.stem>>].filePath = pathOf(current)
            /\ Len(graph'.edges) > Len(graph.edges)
            /\ TriggersOnFrom(graph', <<"ApexTrigger", current.stem>>) # {}]_vars

\* C9 witness: a run that went past a test class with a DML statement, which
\* left no node, and past a trigger with @isTest, which left its node and
\* its triggers_on edge.
C9_Witness ==
    /\ pc = "done"
    /\ \E i, j \in 1..Len(files) :
          /\ files[i].type = "ApexClass"
          /\ isTestClass(fileAt(tree, files[i].path))
          /\ Len(fileAt(tree, files[i].path).content) > 1
          /\ ~hasNode(graph, <<"ApexClass", fileAt(tree, files[i].path).stem>>)
          /\ files[j].type = "ApexTrigger"
          /\ isTestClass(fileAt(tree, files[j].path))
          /\ TriggersOnFrom(graph, <<"ApexTrigger", fileAt(tree, files[j].path).stem>>) # {}

\* C10: in every run given a progress callback, the callback is called with
\* (0, total) before any file is processed and once more at completion,
\* after the last file has been handled and before analyze returns, also
\* when files are skipped as test classes or fail to parse.
C10_ProgressAtCompletion ==
    (pc = "done" /\ onProgress) =>
        /\ Len(progressLog) >= 1
        /\ progressLog[1] = progressCall(0, Len(files), 0)
        /\ \E k \in 1..Len(progressLog) : progressLog[k].handled = Len(files)

----------------------------------------------------------------------------
\* The file of the tree behind entry i of the file list.
FileOf(i) == fileAt(tree, files[i].path)

\* The id analyze gives the component of entry i of the file list.
ComponentIdOf(i) ==
    CASE files[i].type = "CustomObject" -> <<"CustomObject", parentDir(FileOf(i))>>
      [] files[i].type = "LWC"          -> <<"LightningWebComponent", parentDir(FileOf(i))>>
      [] files[i].type = "Aura"         -> <<"AuraComponent", FileOf(i).stem>>
      [] OTHER                          -> <<files[i].type, FileOf(i).stem>>

\* Entry i is an ApexClass the test-class gate skips.
FileSkipped(i) == files[i].type = "ApexClass" /\ isTestClass(FileOf(i))

\* Reading or parsing the file of entry i fails.
FileFails(i) ==
    \/ ~FileOf(i).readable
    \/ files[i].type = "CustomObject" /\ rootElements(FileOf(i)) = <<>>

\* Processing entry i throws inside the loop's try.
FileThrows(i) ==
    /\ FileFails(i)
    /\ files[i].type \in {"CustomObject", "ApexClass", "ApexTrigger"}

\* g has an edge of the type from the id to the CustomObject the name spells
\* in some letter case.
HasObjectEdge(g, from, type, name) ==
    \E k \in 1..Len(g.dependencies) :
        /\ g.dependencies[k].from = from
        /\ g.dependencies[k].type = type
        /\ g.dependencies[k].to[1] = "CustomObject"
        /\ toLowerCase(g.dependencies[k].to[2]) = toLowerCase(name)

\* g has a uses edge from the id to the Apex class.
HasClassEdge(g, from, class) ==
    \E k \in 1..Len(g.dependencies) :
        /\ g.dependencies[k].from = from
        /\ g.dependencies[k].type = "uses"
        /\ g.dependencies[k].to = <<"ApexClass", class>>

\* The edges the content of entry i calls for are in g.
EdgesPresent(g, i) ==
    LET f  == FileOf(i)
        id == ComponentIdOf(i)
    IN  \A k \in 1..Len(f.content) :
           LET e == f.content[k]
           IN  /\ (e.kind = "CustomObject") =>
                     \A j \in 1..Len(e.fields) :
                        e.fields[j].type \in {"Lookup", "MasterDetail"} =>
                           \A r \in 1..Len(e.fields[j].referenceTo) :
                              HasObjectEdge(g, id, "references",
                                            e.fields[j].referenceTo[r])
               /\ (e.kind = "import") => HasClassEdge(g, id, e.name)
               /\ (e.kind = "attribute" /\ e.class \in indexes.apexClassNames)
                     => HasClassEdge(g, id, e.class)
               /\ (e.kind \in {"dml", "soql"} /\ objectToken(e.name))
                     => HasObjectEdge(g, id, "uses", e.name)
               /\ (e.kind = "trigger" /\ files[i].type = "ApexTrigger"
                   /\ startsUpper(e.name))
                     => HasObjectEdge(g, id, "triggers_on", e.name)

\* C11: a file whose processing throws does not make analyze reject; every
\* file after it in scan order is still dispatched, and the returned graph has
\* the component and the edges of every file that did not fail.
C11_ErrorIsolation ==
    /\ pc = "rejected" => readdirThrows(tree)
    /\ pc \in {"loop", "awaitProgress"} => idx \in 1..(Len(files) + 1)
    /\ pc = "done" =>
          /\ result.returned
          /\ idx = Len(files) + 1
          /\ \A i \in 1..Len(files) :
                (~FileThrows(i) /\ ~FileSkipped(i)) =>
                    /\ ComponentIdOf(i) \in DOMAIN result.graph.components
                    /\ FileOf(i).readable => EdgesPresent(result.graph, i)

\* C11 witness: a run that returned although a file threw, with a file after
\* the failed one that left its component and its edges.
C11_Witness ==
    /\ pc = "done"
    /\ \E i, j \in 1..Len(files) :
          /\ i < j
          /\ FileThrows(i)
          /\ ~FileThrows(j) /\ ~FileSkipped(j)
          /\ Len(FileOf(j).content) > 0
          /\ ComponentIdOf(j) \in DOMAIN result.graph.components
          /\ \E k \in 1..Len(result.graph.dependencies) :
                result.graph.dependencies[k].from = ComponentIdOf(j)

----------------------------------------------------------------------------
\* The component ids of the entries that failed or were skipped as test
\* classes.
UnprocessedIds ==
    { ComponentIdOf(i) : i \in { j \in 1..Len(files) : FileFails(j) \/ FileSkipped(j) } }

\* The count stats reports for a type, zero when the type has no entry.
CountByType(stats, type) ==
    IF type \in DOMAIN stats.componentsByType THEN stats.componentsByType[type] ELSE 0

ComponentTypes ==
    {"CustomObject", "ApexClass", "ApexTrigger", "LightningWebComponent",
     "AuraComponent", "Flow", "Unknown"}

\* C12: after analyze the counts of stats reflect only successfully processed
\* files: a file that failed, or an ApexClass skipped as a test class, adds
\* nothing to totalComponents, to componentsByType or to totalDependencies,
\* whatever the other files of the tree reference.
C12_StatsOnlySuccessful ==
    pc = "done" =>
        LET g == result.graph
            counted == DOMAIN g.components \ UnprocessedIds
        IN  /\ result.stats.totalComponents = Cardinality(counted)
            /\ \A type \in ComponentTypes :
                  CountByType(result.stats, type)
                     = Cardinality({id \in counted : g.components[id].type = type})
            /\ result.stats.totalDependencies
                  = Cardinality({k \in 1..Len(g.dependencies) :
                                    g.dependencies[k].from \notin UnprocessedIds})

----------------------------------------------------------------------------
\* C13: when listing a directory of the tree fails during the scan, analyze
\* rejects with that error and returns no result; no extractor is invoked, no
\* component or edge is accumulated and the progress callback is never
\* called.
C13_FatalScanFailure ==
    (\E k \in 1..Len(tree) : isUnlistableDir(tree[k])) =>
        /\ pc \in {"start", "rejected"}
        /\ ~result.returned
        /\ files = <<>> /\ idx = 0 /\ processed = 0
        /\ graph = EmptyGraph
        /\ progressLog = <<>> /\ ~pending

\* C13 witness: analyze, given a callback, rejected on a tree that has an
\* unlistable directory after a readable file.
C13_Witness ==
    /\ pc = "rejected"
    /\ onProgress
    /\ \E i, j \in 1..Len(tree) :
          i < j /\ tree[i].readable /\ isUnlistableDir(tree[j])

----------------------------------------------------------------------------
\* The edges of the accumulator from one id to another.
EdgesBetween(from, to) ==
    { k \in 1..Len(graph.edges) : graph.edges[k].from = from /\ graph.edges[k].to = to }

\* Every class a readable LWC module behind the loop imports has exactly one
\* edge from the component, a uses edge tagged lwc_apex_import of the weight.
LwcImportEdges(weight) ==
    \A i \in 1..Len(files) :
        (i < idx /\ files[i].type = "LWC" /\ FileOf(i).readable) =>
            \A n \in 1..Len(FileOf(i).content) :
                LET class == FileOf(i).content[n].name
                    edges == EdgesBetween(ComponentIdOf(i), <<"ApexClass", class>>)
                IN  /\ Cardinality(edges) = 1
                    /\ \A k \in edges :
                          /\ graph.edges[k].type = "uses"
                          /\ graph.edges[k].metadata = [source |-> "lwc_apex_import"]
                          /\ graph.edges[k].weight = weight

\* C14 as claimed: an LWC main module importing from
\* '@salesforce/apex/AccountController.getRecords' yields one uses edge to
\* ApexClass:AccountController tagged lwc_apex_import with weight 5.
C14_LwcImportWeightFive == LwcImportEdges(5)

\* C14 amended: the edge of an LWC import is one uses edge to the imported
\* class tagged lwc_apex_import, with weight 8, the weight of the row
\* LWC or Aura -> ApexClass.
C14_LwcImportWeightEight == LwcImportEdges(8)

\* C14 witness: the module lwc/foo/foo.js, which imports AccountController
\* twice, has been processed and AccountController has an edge from it.
C14_Witness ==
    \E i \in 1..Len(files) :
        /\ i < idx /\ files[i].type = "LWC" /\ FileOf(i).readable
        /\ \E n \in 1..Len(FileOf(i).content) :
              FileOf(i).content[n].name = "AccountController"
        /\ EdgesBetween(ComponentIdOf(i), <<"ApexClass", "AccountController">>) # {}

----------------------------------------------------------------------------
\* C18: while the promise the progress callback returned is pending, analyze
\* processes nothing: no extractor runs, no addComponent or addDependency
\* happens, no file is dispatched and nothing is returned, so the only step
\* of the run is the settling of the promise.
C18_CooperativeCheckpoint ==
    [][pending =>
          /\ UNCHANGED <<graph, objectNameMap, idx, processed, progressLog, result>>
          /\ pending' = FALSE]_vars

\* C18 witness: the callback called at completion is pending after files were
\* processed and left components.
C18_Witness ==
    /\ pending /\ pc = "awaitProgress"
    /\ Len(progressLog) >= 2
    /\ idx = Len(files) + 1
    /\ DOMAIN graph.nodes # {}

----------------------------------------------------------------------------
ExtractorTypes == {"CustomObject", "ApexClass", "ApexTrigger", "LWC", "Aura"}

\* The components of g registered for the file of entry i.
ComponentsOfFile(g, i) ==
    { id \in DOMAIN g.components : g.components[id].filePath = files[i].path }

\* C19: for a file of type CustomObject, ApexClass, ApexTrigger, LWC or Aura
\* whose reading or parsing fails, the final graph has no component for the
\* file and no edge from it.
C19_ExtractorsFailClosed ==
    pc = "done" =>
        \A i \in 1..Len(files) :
            (files[i].type \in ExtractorTypes /\ FileFails(i)) =>
                /\ ComponentsOfFile(result.graph, i) = {}
                /\ \A k \in 1..Len(result.graph.dependencies) :
                      result.graph.dependencies[k].from # ComponentIdOf(i)

----------------------------------------------------------------------------
\* The edges of the graph an LWC file produced.
LwcEdges ==
    { k \in 1..Len(graph.edges) :
        graph.edges[k].metadata = [source |-> "lwc_apex_import"] }

\* C23: when analyze runs, every edge produced for an LWC file points to
\* ApexClass:<Class> with <Class> in the Apex-class-name index, an import of
\* a class that is not in the index yields no edge, and imports of the same
\* class yield one edge per file.
C23_LwcEdgesFiltered ==
    /\ \A k \in LwcEdges :
          /\ graph.edges[k].to[1] = "ApexClass"
          /\ graph.edges[k].to[2] \in indexes.apexClassNames
    /\ \A j, k \in LwcEdges :
          (/\ graph.edges[j].from = graph.edges[k].from
           /\ graph.edges[j].to = graph.edges[k].to) => j = k

----------------------------------------------------------------------------
ProbeNames ==
    {"Account", "ACCOUNT", "Contact", "Foo__c", "FOO__c", "Bar__c", "Helper", "Widget"}

\* Entry i is classes/Helper.cls, whose body holds `new Contact`.
IsHelperClass(i) == files[i].type = "ApexClass" /\ FileOf(i).stem = "Helper"

\* C20: isObjectName(name) is true iff the lower-cased name is a key of the
\* registry at the time of the call and the name is not in the field-name
\* index; a registered object whose name is also a field name is not an
\* object name, so `new Contact` leaves an edge to CustomObject:Contact
\* exactly when no field is named Contact.
C20_IsObjectNameIff ==
    /\ \A name \in ProbeNames :
          isObjectName(indexes, objectNameMap, name)
             <=> /\ toLowerCase(name) \in DOMAIN objectNameMap
                 /\ name \notin indexes.fieldNames
    /\ \A i \in 1..Len(files) :
          (i < idx /\ IsHelperClass(i)) =>
              (EdgesBetween(<<"ApexClass", "Helper">>, <<"CustomObject", "Contact">>) # {}
                  <=> "Contact" \notin indexes.fieldNames)

\* C20 witness: Contact is a registered object and a field name, Helper.cls
\* has been processed and has left no edge to CustomObject:Contact.
C20_Witness ==
    /\ "contact" \in DOMAIN objectNameMap
    /\ "Contact" \in indexes.fieldNames
    /\ ~isObjectName(indexes, objectNameMap, "Contact")
    /\ isObjectName(indexes, objectNameMap, "ACCOUNT")
    /\ \E i \in 1..Len(files) : i < idx /\ IsHelperClass(i)
    /\ EdgesBetween(<<"ApexClass", "Helper">>, <<"CustomObject", "Contact">>) = {}

----------------------------------------------------------------------------
\* The edge carries the weight calculate gives for its from, to, type and
\* metadata.
CalculatedWeight(e) ==
    /\ e.weight # NoWeight
    /\ e.weight \in WeightScale
    /\ e.weight = calculate([from |-> e.from, to |-> e.to, type |-> e.type,
                             metadata |-> e.metadata, weight |-> NoWeight])

\* C27: every dependency of the graph analyze accumulates and returns
\* carries a weight, and the weight equals DependencyWeightCalculator.calculate
\* applied to the same edge; no extractor sets another weight.
C27_WeightsFromCalculator ==
    /\ \A k \in 1..Len(graph.edges) : CalculatedWeight(graph.edges[k])
    /\ pc = "done" =>
          /\ Len(result.graph.dependencies) = Len(graph.edges)
          /\ \A k \in 1..Len(result.graph.dependencies) :
                CalculatedWeight(result.graph.dependencies[k])

\* C27 witness: a returned graph with edges of an object file, of an Apex
\* file and of an LWC file, of three different weights.
C27_Witness ==
    /\ pc = "done"
    /\ \E i, j, k \in 1..Len(result.graph.dependencies) :
          /\ result.graph.dependencies[i].from[1] = "CustomObject"
          /\ result.graph.dependencies[j].from[1] = "ApexClass"
          /\ result.graph.dependencies[k].from[1] = "LightningWebComponent"
          /\ Cardinality({ result.graph.dependencies[i].weight,
                           result.graph.dependencies[j].weight,
                           result.graph.dependencies[k].weight }) = 3

----------------------------------------------------------------------------
\* The sum of the counts stats reports for the types of the set.
RECURSIVE SumOfCounts(_, _)
SumOfCounts(stats, types) ==
    IF types = {} THEN 0
    ELSE LET t == CHOOSE x \in types : TRUE
         IN  stats.componentsByType[t] + SumOfCounts(stats, types \ {t})

\* C29: in every result analyze returns, stats.totalComponents is the number
\* of keys of graph.components, stats.totalDependencies the length of
\* graph.dependencies, the values of stats.componentsByType sum to
\* totalComponents, and each type's count is the number of components of
\* that type, placeholders included.
C29_StatsConsistent ==
    pc = "done" =>
        LET g == result.graph
            stats == result.stats
        IN  /\ stats.totalComponents = Cardinality(DOMAIN g.components)
            /\ stats.totalDependencies = Len(g.dependencies)
            /\ DOMAIN stats.componentsByType
                  = { g.components[id].type : id \in DOMAIN g.components }
            /\ \A t \in DOMAIN stats.componentsByType :
                  stats.componentsByType[t]
                     = Cardinality({ id \in DOMAIN g.components : g.components[id].type = t })
            /\ SumOfCounts(stats, DOMAIN stats.componentsByType) = stats.totalComponents

\* C29 witness: a returned graph with a placeholder component next to a
\* component of the same type that has a file, and components of two types
\* or more.
C29_Witness ==
    /\ pc = "done"
    /\ Cardinality(DOMAIN result.stats.componentsByType) >= 2
    /\ result.stats.totalDependencies >= 2
    /\ \E a, b \in DOMAIN result.graph.components :
          /\ result.graph.components[a].type = result.graph.components[b].type
          /\ result.graph.components[a].filePath = undefined
          /\ result.graph.components[b].filePath # undefined

----------------------------------------------------------------------------
(***************************************************************************)
(* SpecScan: walkDir visiting the files of a tree one by one.  tree is the *)
(* part of the tree visited so far, files and indexes the accumulators.    *)
(***************************************************************************)
ScanDirs ==
    { <<"lwc", "foo">>, <<"aura", "foo">>, <<"objects", "foo">>, <<"lwc", "aura", "foo">> }

ScanStems == {"foo", "bar"}

ScanExts ==
    {".object-meta.xml", ".field-meta.xml", ".cls", ".trigger", ".flow-meta.xml",
     ".js", ".js-meta.xml", ".cmp", ".app", ".cmp-meta.xml", ".css"}

ScanEntries ==
    { [dirs |-> d, stem |-> n, ext |-> e, readable |-> TRUE, content |-> <<>>] :
        d \in ScanDirs, n \in ScanStems, e \in ScanExts }

InitScan ==
    /\ GraphIdle /\ WeightIdle
    /\ tree = <<>> /\ files = <<>> /\ indexes = NoIndexes /\ objectNameMap = <<>>
    /\ idx = 0 /\ processed = 0 /\ pc = "scan" /\ onProgress = FALSE
    /\ progressLog = <<>> /\ pending = FALSE /\ result = NoResult
    /\ callerPreds = NoPreds /\ parsed = NoParse /\ resolveLog = <<>>
    /\ page = NoPage /\ runs = NoRuns

\* One iteration of walkDir's loop on a file.
VisitEntry(f) ==
    /\ pc = "scan" /\ Len(tree) < MaxEntries
    /\ tree' = Append(tree, f)
    /\ WalkOrder(tree')
    /\ files' = classify([files |-> files, indexes |-> indexes], f).files
    /\ indexes' = classify([files |-> files, indexes |-> indexes], f).indexes
    /\ UNCHANGED <<graph, callLog, dep, weights, objectNameMap, idx, processed, pc,
                   onProgress, progressLog, pending, result, callerPreds, parsed,
                   resolveLog, page, runs>>

NextScan == \E f \in ScanEntries : VisitEntry(f)

SpecScan == InitScan /\ [][NextScan]_vars

\* The file walkDir visited last.
Visited == tree[Len(tree)]

FileTypes == {"CustomObject", "ApexClass", "ApexTrigger", "Flow", "LWC", "Aura"}

IndexNames ==
    {"fieldNames", "apexClassNames", "apexTriggerNames", "lwcNames", "auraNames",
     "flowNames"}

\* The names an index holds, as a set.
IndexSet(ix, index) ==
    IF index = "objectNames" THEN Range(ix.objectNames) ELSE ix[index]

\* The indexes among the seven that hold the name.
IndexesHolding(ix, name) ==
    { index \in IndexNames \cup {"objectNames"} : name \in IndexSet(ix, index) }

\* What the visited file alone gives: its classification on empty accumulators.
Alone(f) == classify([files |-> <<>>, indexes |-> NoIndexes], f)

\* C15: every file appears at most once in the file list, with exactly one of
\* the six types, and adds its name to at most one of the seven indexes; a
\* *.field-meta.xml file adds its stripped name to the field-name index only
\* and never appears in the file list.
C15_ClassificationExclusive ==
    /\ \A i, j \in 1..Len(files) : files[i].path = files[j].path => i = j
    /\ \A i \in 1..Len(files) : files[i].type \in FileTypes
    /\ Len(files) <= Len(tree)
    /\ \A k \in 1..Len(tree) :
          LET f == tree[k]
              r == Alone(f)
          IN  /\ Len(r.files) <= 1
              /\ Cardinality(UNION { IndexSet(r.indexes, index) :
                                        index \in IndexNames \cup {"objectNames"} }) <= 1
              /\ Cardinality({ index \in IndexNames \cup {"objectNames"} :
                                  IndexSet(r.indexes, index) # {} }) <= 1
              /\ \A index \in IndexNames \cup {"objectNames"} :
                    IndexSet(r.indexes, index) \subseteq IndexSet(indexes, index)
              /\ (f.ext = ".field-meta.xml") =>
                    /\ r.files = <<>>
                    /\ r.indexes = [NoIndexes EXCEPT !.fieldNames = {f.stem}]
                    /\ \A i \in 1..Len(files) : files[i].path # pathOf(f)

\* C15 witness: a field file and an object file of the same directory were
\* visited; the list has the object file only.
C15_Witness ==
    /\ Len(tree) = 2 /\ Len(files) = 1
    /\ \E k \in 1..2 : tree[k].ext = ".field-meta.xml"
    /\ files[1].type = "CustomObject"
    /\ indexes.fieldNames # {}

\* The entries of the file list for the path of f.
ListedAs(f) == { files[i].type : i \in { j \in 1..Len(files) : files[j].path = pathOf(f) } }

\* C16: among the files directly in a folder under an lwc path segment the
\* only one classified as LWC, and whose name enters the LWC index, is the
\* .js file named after the folder; a sibling .js file with another base name
\* gives no file-list entry and no index entry.
C16_OneModulePerFolder ==
    /\ \A k \in 1..Len(tree) :
          LET f == tree[k]
          IN  underSegment(f, "lwc") =>
                /\ ("LWC" \in ListedAs(f)) <=> (f.ext = ".js" /\ f.stem = parentDir(f))
                /\ (f.ext = ".js" /\ f.stem # parentDir(f)) =>
                      /\ ListedAs(f) = {}
                      /\ Alone(f).indexes = NoIndexes
    /\ \A i, j \in 1..Len(files) :
          (/\ files[i].type = "LWC" /\ files[j].type = "LWC"
           /\ \E a, b \in 1..Len(tree) :
                 /\ pathOf(tree[a]) = files[i].path
                 /\ pathOf(tree[b]) = files[j].path
                 /\ tree[a].dirs = tree[b].dirs)
          => i = j
    /\ indexes.lwcNames
          = { tree[k].stem : k \in { n \in 1..Len(tree) : "LWC" \in ListedAs(tree[n]) } }

\* C16 witness: foo.js and bar.js of the folder lwc/foo were visited; the list
\* has foo.js only and the LWC index has foo only.
C16_Witness ==
    /\ Len(tree) = 2
    /\ \A k \in 1..2 : tree[k].dirs = <<"lwc", "foo">> /\ tree[k].ext = ".js"
    /\ Len(files) = 1 /\ files[1] = [path |-> "lwc/foo/foo.js", type |-> "LWC"]
    /\ indexes.lwcNames = {"foo"}

----------------------------------------------------------------------------
(***************************************************************************)
(* SpecFilter: the script of the generated dependency-graph page.  page    *)
(* holds allNodes and allEdges, the controls (type checkboxes, the         *)
(* min-connections and min-weight sliders) and the two displayed datasets. *)
(***************************************************************************)
MinWeightSliderMax == 10

\* A weight test turned around: the edges up to the threshold pass.
passesWeightBelow(edge, minWeight) ==
    (IF edge.weight = 0 THEN 3 ELSE edge.weight) <= minWeight

\* (edge.weight || 3) >= minWeight
passesWeight(edge, minWeight) ==
    (IF edge.weight = 0 THEN 3 ELSE edge.weight) >= minWeight

\* connectionCounts.get(node.id) || 0, over the edges left after the weight
\* and type filters
connectionCount(edges, id) ==
    Cardinality({k \in 1..Len(edges) : edges[k].from = id})
    + Cardinality({k \in 1..Len(edges) : edges[k].to = id})

applyFilters(p) ==
    LET typeNodeIds == {id \in DOMAIN p.allNodes : p.allNodes[id] \in p.selectedTypes}
        byWeight    == SelectSeq(p.allEdges, LAMBDA e : passesWeight(e, p.minWeight))
        byType      == SelectSeq(byWeight,
                                 LAMBDA e : e.from \in typeNodeIds /\ e.to \in typeNodeIds)
        finalIds    == {id \in typeNodeIds : connectionCount(byType, id) >= p.minConn}
    IN  [p EXCEPT !.nodesDataset = finalIds,
                  !.edgesDataset = SelectSeq(byType,
                                             LAMBDA e : e.from \in finalIds /\ e.to \in finalIds)]

PageNodes == ("A" :> "ApexClass") @@ ("B" :> "ApexClass") @@ ("O" :> "CustomObject")

PageTypes == {"ApexClass", "CustomObject"}

PageEdges ==
    { [from |-> e[1], to |-> e[2], weight |-> w] :
        e \in {<<"A", "O">>, <<"B", "O">>, <<"A", "B">>}, w \in {0, 2, 6} }

ConnStops == {0, 1, 2}

\* The page as loaded: every checkbox checked, the sliders at the recommended
\* values, and applyFilters run once.
InitFilter ==
    /\ GraphIdle /\ WeightIdle
    /\ tree = <<>> /\ files = <<>> /\ indexes = NoIndexes /\ objectNameMap = <<>>
    /\ idx = 0 /\ processed = 0 /\ pc = "page" /\ onProgress = FALSE
    /\ progressLog = <<>> /\ pending = FALSE /\ result = NoResult
    /\ callerPreds = NoPreds /\ parsed = NoParse /\ resolveLog = <<>>
    /\ runs = NoRuns
    /\ \E edges \in UNION { [1..n -> PageEdges] : n \in 0..MaxEdges },
          conn \in ConnStops, weight \in 0..MinWeightSliderMax :
          page = applyFilters([loaded        |-> TRUE,
                               allNodes      |-> PageNodes,
                               allEdges      |-> edges,
                               selectedTypes |-> PageTypes,
                               minConn       |-> conn,
                               minWeight     |-> weight,
                               nodesDataset  |-> {},
                               edgesDataset  |-> <<>>])

pageOnly == <<graph, callLog, dep, weights, tree, files, indexes, objectNameMap,
              idx, processed, pc, onProgress, progressLog, pending, result,
              callerPreds, parsed, resolveLog, runs>>

\* onchange of the min-weight slider
filterByWeight(minWeight) ==
    /\ pc = "page"
    /\ page' = applyFilters([page EXCEPT !.minWeight = minWeight])
    /\ UNCHANGED pageOnly

\* onchange of the min-connections slider
filterByConnections(minConnections) ==
    /\ pc = "page"
    /\ page' = applyFilters([page EXCEPT !.minConn = minConnections])
    /\ UNCHANGED pageOnly

\* onchange of a type checkbox, which the click has toggled
filterByType(type) ==
    /\ pc = "page"
    /\ page' = applyFilters([page EXCEPT !.selectedTypes =
                                IF type \in @ THEN @ \ {type} ELSE @ \cup {type}])
    /\ UNCHANGED pageOnly

NextFilter ==
    \/ \E minWeight \in 0..MinWeightSliderMax : filterByWeight(minWeight)
    \/ \E minConnections \in ConnStops : filterByConnections(minConnections)
    \/ \E type \in PageTypes : filterByType(type)

SpecFilter == InitFilter /\ [][NextFilter]_vars

\* C17: raising the minimum-weight threshold while the type and
\* minimum-connection filters stay as they are never increases the number of
\* displayed nodes: the node set displayed at the higher threshold is a subset
\* of the one displayed at the lower threshold.
C17_WeightThresholdMonotone ==
    [][(/\ page'.selectedTypes = page.selectedTypes
        /\ page'.minConn = page.minConn
        /\ page'.minWeight >= page.minWeight)
       => /\ page'.nodesDataset \subseteq page.nodesDataset
          /\ Cardinality(page'.nodesDataset) <= Cardinality(page.nodesDataset)]_vars

\* C17 witness: at threshold 3 with at least one connection asked for, a page
\* with a weight-2 edge and a weight-6 edge displays the ends of the weight-6
\* edge only.
C17_Witness ==
    /\ pc = "page" /\ page.minWeight = 3 /\ page.minConn = 1
    /\ page.selectedTypes = PageTypes
    /\ page.allEdges = <<[from |-> "A", to |-> "O", weight |-> 2],
                         [from |-> "A", to |-> "B", weight |-> 6]>>
    /\ page.nodesDataset = {"A", "B"}

----------------------------------------------------------------------------
(***************************************************************************)
(* SpecRuns: analyze called several times on one MetadataAnalyzer, as the  *)
(* server's streaming endpoint does, each call with a progress callback    *)
(* whose promise settles later.  A call runs without interruption from one *)
(* await to the next, so a step of a call is the stretch of analyze        *)
(* between two awaits.  runs[r] holds what the call r keeps in the local   *)
(* variables of analyze:                                                   *)
(*   [tree, onProgress, files, indexes, objectNameMap, graph, idx,         *)
(*    processed, progressLog, pc, result].                                 *)
(***************************************************************************)

\* A call that has not been made yet.
idleRun(t, callback) ==
    [tree |-> t, onProgress |-> callback, files |-> <<>>, indexes |-> NoIndexes,
     objectNameMap |-> <<>>, graph |-> EmptyGraph, idx |-> 0, processed |-> 0,
     progressLog |-> <<>>, pc |-> "idle", result |-> NoResult]

\* processed++ and the progress call at the end of a try body that ran to
\* its end
completeIteration(st) ==
    LET done == st.processed + 1
    IN  IF st.onProgress /\ (done % ProgressEvery = 0 \/ done = Len(st.files))
        THEN [st EXCEPT !.idx = @ + 1, !.processed = done,
                        !.progressLog = Append(@, progressCall(done, Len(st.files), st.idx)),
                        !.pc = pcAfterCallback]
        ELSE [st EXCEPT !.idx = @ + 1, !.processed = done]

\* One iteration of the file loop of analyze, on the file at st.idx.
iteration(st) ==
    LET file == st.files[st.idx]
        f    == fileAt(st.tree, file.path)
    IN  CASE file.type = "CustomObject" ->
               LET r == customObjectParse(f)
               IN  IF r.outcome = "returned"
                   THEN completeIteration(
                          [st EXCEPT !.objectNameMap =
                                        mapSet(@, toLowerCase(parentDir(f)), parentDir(f)),
                                     !.graph = addDependencies(addComponent(@, r.component),
                                                               r.dependencies, 1)])
                   ELSE [st EXCEPT !.idx = @ + 1]
          [] file.type = "ApexClass" /\ isTestClass(f) ->
               [st EXCEPT !.graph = afterTestClass(@, f), !.idx = @ + 1]
          [] file.type \in {"ApexClass", "ApexTrigger"}
             /\ ~(file.type = "ApexClass" /\ isTestClass(f)) ->
               LET r == apexParseFile(AllPreds, st.indexes, st.objectNameMap, file.type, f)
               IN  IF r.outcome = "returned"
                   THEN completeIteration(
                          [st EXCEPT !.objectNameMap = r.map,
                                     !.graph = addDependencies(addComponent(@, r.component),
                                                               r.dependencies, 1)])
                   ELSE [st EXCEPT !.idx = @ + 1]
          [] file.type = "LWC" ->
               LET componentId == <<"LightningWebComponent", parentDir(f)>>
               IN  completeIteration(
                     [st EXCEPT !.graph =
                        addDependencies(
                            addComponent(@, [id |-> componentId, name |-> <<parentDir(f)>>,
                                             type |-> "LightningWebComponent",
                                             filePath |-> file.path, label |-> undefined,
                                             description |-> undefined]),
                            lwcParse(f, componentId), 1)])
          [] file.type = "Aura" ->
               LET componentId == <<"AuraComponent", f.stem>>
               IN  completeIteration(
                     [st EXCEPT !.graph =
                        addDependencies(
                            addComponent(@, [id |-> componentId, name |-> <<f.stem>>,
                                             type |-> "AuraComponent",
                                             filePath |-> file.path, label |-> undefined,
                                             description |-> undefined]),
                            auraParse(AllPreds, st.indexes, f, componentId), 1)])
          [] OTHER ->
               completeIteration(
                 [st EXCEPT !.graph =
                    addComponent(@, [id |-> <<"Flow", f.stem>>, name |-> <<f.stem>>,
                                     type |-> "Flow", filePath |-> file.path,
                                     label |-> undefined, description |-> undefined])])

RECURSIVE runSegment(_)

\* The for loop after one of its iterations: the call is suspended when the
\* iteration ended at the await of a progress promise, and goes on to the
\* next file when it did not.
loopAfter(next) ==
    IF next.pc = "awaitProgress" THEN next ELSE runSegment(next)

\* analyze from the file at st.idx on, up to its next await of a progress
\* promise or, when the loop ends first, to its return.
runSegment(st) ==
    IF st.idx > Len(st.files)
    THEN [st EXCEPT !.result = [returned |-> TRUE, graph |-> build(st.graph),
                                stats |-> statsOf(build(st.graph))],
                    !.pc = "done"]
    ELSE loopAfter(iteration([st EXCEPT !.pc = "loop"]))

\* The start of analyze: the scan, the registry, the graph builder, the
\* counter and the first progress call.
startRun(st) ==
    IF readdirThrows(st.tree) THEN [st EXCEPT !.pc = "rejected"]
    ELSE LET scanned == scanWithIndexes(st.tree)
             begun == [st EXCEPT !.files = scanned.files,
                                 !.indexes = scanned.indexes,
                                 !.objectNameMap = buildObjectNameMap(scanned.indexes),
                                 !.graph = EmptyGraph,
                                 !.processed = 0,
                                 !.idx = 1]
         IN  IF st.onProgress
             THEN [begun EXCEPT !.progressLog = <<progressCall(0, Len(scanned.files), 0)>>,
                                !.pc = pcAfterCallback]
             ELSE runSegment(begun)

\* A registry kept in a field of the analyzer: every call works on the
\* registry of the call made first.
runStateSharedRegistry(rs, r) ==
    IF rs[1].pc # "idle" /\ rs[1].pc # "rejected"
    THEN [rs[r] EXCEPT !.objectNameMap = rs[1].objectNameMap]
    ELSE rs[r]

\* files, indexes, objectNameMap, graphBuilder and processed are locals of
\* the call: what a call works on is its own record.
runState(rs, r) == rs[r]

\* The call r alone, n settled promises after its start.
RECURSIVE aloneAfter(_, _, _)
aloneAfter(t, callback, n) ==
    IF n = 0 THEN startRun(idleRun(t, callback))
    ELSE LET before == aloneAfter(t, callback, n - 1)
         IN  IF before.pc = "awaitProgress" THEN runSegment(before) ELSE before

\* What analyze returns for the tree when no other call is in flight.
analyzeAlone(t, callback) == aloneAfter(t, callback, Len(t) + 1)

\* The trees of the calls: an object or field file followed by Helper.cls,
\* Helper.cls alone, an LWC module alone, a directory that cannot be listed,
\* and the long tree, whose run is suspended in the middle of its loop.
RunTrees ==
    { <<a, b>> : a \in { e \in TreeEntries : e.dirs[1] = "objects" /\ e.ext # "/" },
                 b \in { e \in TreeEntries : e.stem = "Helper" } }
    \cup { <<a>> : a \in { e \in TreeEntries : e.stem \in {"Helper", "foo", "Locked"} } }
    \cup { LongTree }

InitRuns ==
    /\ GraphIdle /\ WeightIdle
    /\ tree = <<>> /\ files = <<>> /\ indexes = NoIndexes /\ objectNameMap = <<>>
    /\ idx = 0 /\ processed = 0 /\ pc = "runs" /\ onProgress = TRUE
    /\ progressLog = <<>> /\ pending = FALSE /\ result = NoResult
    /\ callerPreds = AllPreds /\ parsed = NoParse /\ resolveLog = <<>>
    /\ page = NoPage
    /\ \E ts \in [1..MaxRuns -> RunTrees] :
          runs = [r \in 1..MaxRuns |-> idleRun(ts[r], TRUE)]

runsOnly == <<graph, callLog, dep, weights, tree, files, indexes, objectNameMap,
              idx, processed, pc, onProgress, progressLog, pending, result,
              callerPreds, parsed, resolveLog, page>>

\* A request arrives and its handler calls analyze(sourceDir, onProgress).
StartRun(r) ==
    /\ runs[r].pc = "idle"
    /\ runs' = [runs EXCEPT ![r] = startRun(runState(runs, r))]
    /\ UNCHANGED runsOnly

\* The promise the callback of call r returned settles and the call goes on
\* to its next await or to its return.
ResumeRun(r) ==
    /\ runs[r].pc = "awaitProgress"
    /\ runs' = [runs EXCEPT ![r] = runSegment(runState(runs, r))]
    /\ UNCHANGED runsOnly

NextRuns ==
    \/ \E r \in 1..MaxRuns : StartRun(r)
    \/ \E r \in 1..MaxRuns : ResumeRun(r)

SpecRuns == InitRuns /\ [][NextRuns]_vars

AnalyzeAgrees ==
    pc = "done" =>
        /\ analyzeAlone(tree, onProgress).pc = "done"
        /\ analyzeAlone(tree, onProgress).result = result
        /\ analyzeAlone(tree, onProgress).progressLog = progressLog
        /\ analyzeAlone(tree, onProgress).objectNameMap = objectNameMap

====
